---- MODULE Spec2Model ----
(***************************************************************************)
(* Cluster supervision of the agency (Supervision.cpp, FailedServer.cpp,   *)
(* AddFollower.cpp, FailedFollower.cpp, RemoveServer.cpp) as a state       *)
(* machine.  The persistent agency tree and the transient tree of every    *)
(* agent are records; a supervisor tick is two steps, updateSnapshot and   *)
(* the work done on that snapshot, and every agency transaction inside a   *)
(* tick is applied in the order the code issues it.                        *)
(***************************************************************************)
EXTENDS Integers, Sequences, FiniteSets, TLC

VARIABLES
  agency,     \* the replicated (persistent) agency tree below /arango
  transient,  \* transient[i]: the non-replicated tree of supervisor i's agent
  sup,        \* sup[i]: the Supervision object of agent i
  now,        \* std::chrono::system_clock::now(), in seconds
  alive,      \* alive[srv]: the server process runs and sends heartbeats
  hlog,       \* history: what the last iteration of a supervisor did
  coll        \* the MMFiles collection of a DB server (storage engine)

vars == <<agency, transient, sup, now, alive, hlog, coll>>

-----------------------------------------------------------------------------
(* Bounds of the model *)

MaxTime == 12          \* the clock stops advancing here
TimeStep == 3          \* seconds between two readings of the clock
MaxJobId == 3          \* job ids a supervisor uses of one range
MaxNewFollowers == 1   \* servers in the newFollower list of a repair job

(* Program constants *)

GracePeriod == 5       \* _gracePeriod(5.)
IdStep == 10000        \* size_t n = 10000 in getUniqueIds

HEALTH_STATUS_GOOD == "GOOD"
HEALTH_STATUS_BAD == "BAD"
HEALTH_STATUS_FAILED == "FAILED"
NoStatus == ""         \* the empty std::string of an unset Status
NoTime == -1           \* the empty std::string of an unset time stamp
NoCollection == <<>>   \* an agent holds no collection

ServerOrder == <<"A", "B", "C", "D", "CR1">>   \* std::map iteration order
AllServers == {ServerOrder[k] : k \in DOMAIN ServerOrder}
AllDBServers == {"A", "B", "C", "D"}
AllCoordinators == {"CR1"}

Ordered(S) == SelectSeq(ServerOrder, LAMBDA x : x \in S)

Range(f) == {f[x] : x \in DOMAIN f}

Without(f, k) == [x \in DOMAIN f \ {k} |-> f[x]]

Put(f, k, v) == (k :> v) @@ f

-----------------------------------------------------------------------------
(* Records of the agency tree *)

\* /Supervision/Health/<srv>: the fields the supervisor reads back
UnsetHealth == [Status |-> NoStatus, LastHeartbeatSent |-> NoTime,
                LastHeartbeatStatus |-> "", LastHeartbeatAcked |-> NoTime]

\* /Sync/ServerStates/<srv> before the first heartbeat: the key is absent
NoSync == [time |-> NoTime, status |-> ""]

\* A job record as written to /Target/ToDo/<jobId>; operands a job kind does
\* not have are empty.
Job(jobId, type, creator, server, collection, shard, from, to, newFollower) ==
  [jobId |-> jobId, type |-> type, creator |-> creator, server |-> server,
   collection |-> collection, shard |-> shard, fromServer |-> from,
   toServer |-> to, newFollower |-> newFollower]

\* std::to_string(_jobId++): a top-level job id; children append "-<sub>"
JobIdOf(n) == <<n>>

\* elapsed = now - stringToTimepoint(lastHeartbeatAcked); an unset time stamp
\* converts to the epoch, which lies more than any grace period back
Elapsed(acked) == IF acked = NoTime THEN now + GracePeriod + 1 ELSE now - acked

-----------------------------------------------------------------------------
(* FailedServer::create with an envelope: the operations and preconditions  *)
(* that checkDBServers splices into its health report                       *)

FailedServerToDo(jobId, creator, server) ==
  Job(jobId, "failedServer", creator, server, "", "", "", "", <<>>)

\* Preconditions of the envelope, evaluated on a tree that has Health and
\* FailedServers: Status still BAD, /Target/FailedServers as in the snapshot
FailedServerPrecondition(tree, S, server) ==
  /\ tree.Health[server].Status = HEALTH_STATUS_BAD
  /\ tree.FailedServers = S.FailedServers

-----------------------------------------------------------------------------
(* The health report of one server *)

\* Merge of a report object into /Supervision/Health/<srv>: keys the report
\* does not carry keep their value.
MergeHealth(old, rep) ==
  [Status |-> IF rep.Status = NoStatus THEN old.Status ELSE rep.Status,
   LastHeartbeatSent |-> rep.LastHeartbeatSent,
   LastHeartbeatStatus |-> rep.LastHeartbeatStatus,
   LastHeartbeatAcked |-> IF rep.LastHeartbeatAcked = NoTime
                          THEN old.LastHeartbeatAcked
                          ELSE rep.LastHeartbeatAcked]

\* What checkDBServers reads for one server from its snapshots
Observed(T, srv) ==
  LET sync == T.Sync[srv] # NoSync
  IN [sync |-> sync,
      heartbeatTime |-> T.Sync[srv].time,
      heartbeatStatus |-> T.Sync[srv].status,
      last |-> IF sync THEN T.Health[srv] ELSE UnsetHealth,
      good |-> sync /\ T.Health[srv].LastHeartbeatSent # T.Sync[srv].time]

\* Supervision::checkDBServers, body of the loop up to the end of the
\* transaction: the report, whether it is persisted, whether it carries the
\* failedServer envelope
DBServerReportOf(o) ==
  LET elapsed == Elapsed(o.last.LastHeartbeatAcked)
      hbChanged == o.last.LastHeartbeatStatus # o.heartbeatStatus
      toFailed == ~o.good /\ elapsed > GracePeriod
                  /\ o.last.Status = HEALTH_STATUS_BAD
      toBad == ~o.good /\ ~(elapsed > GracePeriod)
               /\ o.last.Status # HEALTH_STATUS_BAD
  IN [LastHeartbeatSent |-> o.heartbeatTime,
      LastHeartbeatStatus |-> o.heartbeatStatus,
      LastHeartbeatAcked |-> IF o.good THEN now ELSE NoTime,
      Status |-> IF o.good THEN HEALTH_STATUS_GOOD
                 ELSE IF toFailed THEN HEALTH_STATUS_FAILED
                 ELSE IF toBad THEN HEALTH_STATUS_BAD
                 ELSE NoStatus,
      lastStatus |-> o.last.Status,
      good |-> o.good,
      envelope |-> toFailed,
      reportPersistent |->
        \/ hbChanged
        \/ (o.good /\ o.last.Status # HEALTH_STATUS_GOOD)
        \/ toFailed
        \/ toBad]

DBServerReport(T, srv) == DBServerReportOf(Observed(T, srv))

\* Supervision::checkCoordinators, the same part of its loop
CoordinatorReportOf(o) ==
  LET elapsed == Elapsed(o.last.LastHeartbeatAcked)
      hbChanged == o.heartbeatStatus # o.last.LastHeartbeatStatus
      late == elapsed > GracePeriod \/ ~o.sync
      toFailed == ~o.good /\ late /\ o.last.Status = HEALTH_STATUS_BAD
  IN [LastHeartbeatSent |-> o.heartbeatTime,
      LastHeartbeatStatus |-> o.heartbeatStatus,
      LastHeartbeatAcked |-> IF o.good THEN now ELSE NoTime,
      Status |-> IF o.good THEN HEALTH_STATUS_GOOD
                 ELSE IF toFailed THEN HEALTH_STATUS_FAILED
                 ELSE IF ~late THEN HEALTH_STATUS_BAD
                 ELSE NoStatus,
      lastStatus |-> o.last.Status,
      good |-> o.good,
      envelope |-> FALSE,
      reportPersistent |->
        \/ hbChanged
        \/ (o.good /\ o.last.Status # HEALTH_STATUS_GOOD)
        \/ toFailed]

CoordinatorReport(T, srv) == CoordinatorReportOf(Observed(T, srv))


-----------------------------------------------------------------------------
(* doChecks.  A tick threads a record w through the calls it makes:          *)
(*   w.agency     the persistent tree after the transactions issued so far   *)
(*   w.transient  the transient tree of this agent, likewise                 *)
(*   w.jobId      _jobId                                                     *)
(*   w.hlog       the reports issued, for the properties                     *)
(* S is _snapshot and T is _transient, both fixed during the tick.           *)

PersistsAlways(stopping, rep) == ~stopping

\* The test of reportPersistent without the one of isStopping()
PersistsStopping(stopping, rep) == rep.reportPersistent

\* "if (!this->isStopping()) { transient(...); if (reportPersistent) ... }":
\* the report goes to the persistent store as well
Persists(stopping, rep) == ~stopping /\ rep.reportPersistent

NoReport == [checked |-> FALSE, lastStatus |-> NoStatus, Status |-> NoStatus,
             hbChanged |-> FALSE, persistent |-> FALSE, envelope |-> FALSE]

LogOf(T, srv, rep, stopping) ==
  [checked |-> TRUE, lastStatus |-> rep.lastStatus, Status |-> rep.Status,
   hbChanged |-> Observed(T, srv).last.LastHeartbeatStatus
                   # rep.LastHeartbeatStatus,
   persistent |-> Persists(stopping, rep),
   envelope |-> rep.envelope]

\* transient(_agent, *report): the report with the envelope's operations and
\* preconditions, applied to the transient tree
TransientReport(tree, S, srv, rep) ==
  IF rep.envelope /\ ~FailedServerPrecondition(tree, S, srv)
  THEN tree
  ELSE [tree EXCEPT
          !.Health[srv] = MergeHealth(@, rep),
          !.FailedServers = IF rep.envelope THEN Put(@, srv, <<>>) ELSE @]

\* The report without the preconditions of the envelope
PersistentReportUnguarded(tree, S, srv, rep, job) ==
  [tree EXCEPT
     !.Health[srv] = MergeHealth(@, rep),
     !.ToDo = IF rep.envelope THEN Put(@, job.jobId, job) ELSE @,
     !.FailedServers = IF rep.envelope THEN Put(@, srv, <<>>) ELSE @]

\* singleWriteTransaction(_agent, *report): the same transaction on the
\* persistent tree; with the envelope it also writes the ToDo entry
PersistentReport(tree, S, srv, rep, job) ==
  IF rep.envelope /\ ~FailedServerPrecondition(tree, S, srv)
  THEN tree
  ELSE [tree EXCEPT
          !.Health[srv] = MergeHealth(@, rep),
          !.ToDo = IF rep.envelope THEN Put(@, job.jobId, job) ELSE @,
          !.FailedServers = IF rep.envelope THEN Put(@, srv, <<>>) ELSE @]

\* One iteration of the loop of Supervision::checkDBServers
DBServerChecked(w, S, T, srv, stopping, rep) ==
  LET job == FailedServerToDo(JobIdOf(w.jobId), "supervision", srv)
      \* a server that is good again leaves /Target/FailedServers at once
      a1 == IF rep.good /\ srv \in DOMAIN S.FailedServers
            THEN [w.agency EXCEPT !.FailedServers = Without(@, srv)]
            ELSE w.agency
  IN [w EXCEPT
        !.jobId = IF rep.envelope THEN @ + 1 ELSE @,
        !.transient = IF stopping THEN @
                      ELSE TransientReport(@, S, srv, rep),
        !.agency = IF ~Persists(stopping, rep) THEN a1
                   ELSE PersistentReport(a1, S, srv, rep, job),
        !.hlog = [@ EXCEPT ![srv] = LogOf(T, srv, rep, stopping)]]

CheckDBServer(w, S, T, srv, stopping) ==
  DBServerChecked(w, S, T, srv, stopping, DBServerReport(T, srv))

RECURSIVE CheckDBServersFrom(_, _, _, _, _, _)
CheckDBServersFrom(w, S, T, machines, k, stopping) ==
  IF k > Len(machines) THEN w
  ELSE CheckDBServersFrom(CheckDBServer(w, S, T, machines[k], stopping),
                          S, T, machines, k + 1, stopping)

\* Supervision::checkDBServers.  Health entries exist for planned servers
\* only, so the final multi-delete of unplanned entries has nothing to do.
checkDBServers(w, S, T, stopping) ==
  CheckDBServersFrom(w, S, T, Ordered(S.PlanDBServers), 1, stopping)

\* One iteration of the loop of Supervision::checkCoordinators: the report
\* goes to _agent->transient and _agent->write without preconditions
CoordinatorChecked(w, T, srv, stopping, rep) ==
  [w EXCEPT
     !.transient = IF stopping THEN @
                   ELSE [@ EXCEPT !.Health[srv] = MergeHealth(@, rep)],
     !.agency = IF ~Persists(stopping, rep) THEN @
                ELSE [@ EXCEPT !.Health[srv] = MergeHealth(@, rep)],
     !.hlog = [@ EXCEPT ![srv] = LogOf(T, srv, rep, stopping)]]

CheckCoordinator(w, S, T, srv, stopping) ==
  CoordinatorChecked(w, T, srv, stopping, CoordinatorReport(T, srv))

RECURSIVE CheckCoordinatorsFrom(_, _, _, _, _, _)
CheckCoordinatorsFrom(w, S, T, machines, k, stopping) ==
  IF k > Len(machines) THEN w
  ELSE CheckCoordinatorsFrom(CheckCoordinator(w, S, T, machines[k], stopping),
                             S, T, machines, k + 1, stopping)

\* Supervision::checkCoordinators, with the Foxxmaster update at its end
\* "if (!foxxmasterOk && !goodServerId.empty())": the first good coordinator
\* becomes the Foxxmaster
FoxxmasterChecked(w1, S, goodOnes) ==
  IF goodOnes # <<>> /\ \A k \in DOMAIN goodOnes : goodOnes[k] # S.Foxxmaster
  THEN [w1 EXCEPT !.agency.Foxxmaster = goodOnes[1]]
  ELSE w1

checkCoordinators(w, S, T, stopping) ==
  FoxxmasterChecked(
    CheckCoordinatorsFrom(w, S, T, Ordered(S.PlanCoordinators), 1, stopping),
    S,
    SelectSeq(Ordered(S.PlanCoordinators),
              LAMBDA c : Observed(T, c).good))

\* Supervision::doChecks
doChecks(w, S, T, stopping) ==
  checkCoordinators(checkDBServers(w, S, T, stopping), S, T, stopping)


-----------------------------------------------------------------------------
(* The job framework (Job, JobContext).  A job object holds the snapshot it  *)
(* was built on and talks to the agency through transactions only.           *)

CollectionOrder == <<"c1", "c2", "c3", "c4">>   \* std::map iteration order
ShardOrder == <<"s1", "s2", "s3">>

OrderedCollections(plan) ==
  SelectSeq(CollectionOrder, LAMBDA c : c \in DOMAIN plan)

OrderedShards(shards) ==
  SelectSeq(ShardOrder, LAMBDA x : x \in DOMAIN shards)

\* Job ids are the numbers that std::to_string and "-" spell out.  The keys
\* of /Target/ToDo iterate in the order of the strings: Key spells an id as
\* its characters, the digits as 0..9 and "-" as -1, which sorts before them
RECURSIVE Digits(_)
Digits(n) == IF n < 10 THEN <<n>> ELSE Append(Digits(n \div 10), n % 10)

RECURSIVE Key(_)
Key(jobId) ==
  IF Len(jobId) = 1 THEN Digits(jobId[1])
  ELSE Digits(jobId[1]) \o <<-1>> \o Key(Tail(jobId))

RECURSIVE LexBefore(_, _)
LexBefore(a, b) ==
  IF a = <<>> THEN b # <<>>
  ELSE IF b = <<>> THEN FALSE
  ELSE IF Head(a) # Head(b) THEN Head(a) < Head(b)
  ELSE LexBefore(Tail(a), Tail(b))

IdBefore(a, b) == LexBefore(Key(a), Key(b))

RECURSIVE OrderedIds(_)
OrderedIds(ids) ==
  IF ids = {} THEN <<>>
  ELSE LET first == CHOOSE a \in ids : \A b \in ids \ {a} : IdBefore(a, b)
       IN <<first>> \o OrderedIds(ids \ {first})

\* subJob.first.compare(0, _jobId.size() + 1, _jobId + "-") == 0
IsSubJob(sub, jobId) ==
  Len(sub) > Len(jobId) /\ SubSeq(sub, 1, Len(jobId)) = jobId

SubJobId(jobId, sub) == Append(jobId, sub)

\* The lock a job kind takes: "Shards/<shard>" or "DBServers/<server>"
ShardResource(shard) == [kind |-> "Shards", name |-> shard]
ServerResource(server) == [kind |-> "DBServers", name |-> server]

\* Job::finish(resource, success, reason): the entry found in the snapshot's
\* Pending or ToDo moves to Finished or Failed and the resource is released,
\* in one transaction without preconditions.
FinishFound(S, jobId) == jobId \in DOMAIN S.Pending \/ jobId \in DOMAIN S.ToDo

finish(a, S, jobId, resource, success) ==
  IF ~FinishFound(S, jobId) THEN a
  ELSE
    LET entry == IF jobId \in DOMAIN S.Pending THEN S.Pending[jobId]
                 ELSE S.ToDo[jobId]
    IN [a EXCEPT
          !.ToDo = Without(@, jobId),
          !.Pending = Without(@, jobId),
          !.Finished = IF success THEN Put(@, jobId, entry) ELSE @,
          !.Failed = IF success THEN @ ELSE Put(@, jobId, entry),
          !.Shards = IF resource.kind = "Shards"
                     THEN Without(@, resource.name) ELSE @,
          !.DBServers = IF resource.kind = "DBServers"
                        THEN Without(@, resource.name) ELSE @]

\* Job::availableServers: /Plan/DBServers minus /Target/CleanedServers
availableServers(S) ==
  SelectSeq(Ordered(S.PlanDBServers),
            LAMBDA x : x \notin Range(S.CleanedServers))

Remove(seq, x) == SelectSeq(seq, LAMBDA y : y # x)

RemoveAll(seq, xs) == SelectSeq(seq, LAMBDA y : y \notin xs)

\* Job::compareServerLists(plan, current): same leader, same set of servers
compareServerLists(plan, current) ==
  /\ Len(plan) = Len(current)
  /\ (plan # <<>> => plan[1] = current[1])
  /\ Range(plan) = Range(current)

-----------------------------------------------------------------------------
(* AddFollower *)

AddFollowerToDo(jobId, creator, collection, shard, newFollower) ==
  Job(jobId, "addFollower", creator, "", collection, shard, "", "",
      newFollower)

AddFollowerCreateDropped(a, job) == a

\* AddFollower::create: one transaction that writes the ToDo entry, without
\* preconditions.  The AddFollower objects built for the clones are never
\* run and write nothing.
AddFollowerCreate(a, job) == [a EXCEPT !.ToDo = Put(@, job.jobId, job)]

\* The preconditions without the one on the Current list
AddFollowerStartPreconditionNoCurrent(a, S, job) ==
  /\ a.Plan[job.collection].shards[job.shard]
       = S.Plan[job.collection].shards[job.shard]
  /\ job.shard \notin DOMAIN a.Shards

\* The preconditions of the start transaction
AddFollowerStartPrecondition(a, S, job) ==
  /\ a.Current[job.collection][job.shard]
       = S.Current[job.collection][job.shard]
  /\ a.Plan[job.collection].shards[job.shard]
       = S.Plan[job.collection].shards[job.shard]
  /\ job.shard \notin DOMAIN a.Shards

\* AddFollower::start
AddFollowerStart(a, S, job) ==
  LET current == S.Current[job.collection][job.shard]
      planned == S.Plan[job.collection].shards[job.shard]
      front == job.newFollower[1]
  IN IF front \in Range(current) \/ front \in Range(planned)
     THEN finish(a, S, job.jobId, ShardResource(job.shard), FALSE)
     ELSE IF AddFollowerStartPrecondition(a, S, job)
     THEN [a EXCEPT
             !.Pending = Put(@, job.jobId, S.ToDo[job.jobId]),
             !.ToDo = Without(@, job.jobId),
             !.Shards = Put(@, job.shard, job.jobId),
             !.Plan[job.collection].shards[job.shard] = @ \o job.newFollower,
             !.PlanVersion = @ + 1]
     ELSE a

\* AddFollower::status of a Pending job
AddFollowerStatus(a, S, job) ==
  IF job.newFollower[1] \in Range(S.Current[job.collection][job.shard])
  THEN finish(a, S, job.jobId, ShardResource(job.shard), TRUE)
  ELSE a

-----------------------------------------------------------------------------
(* FailedFollower *)

FailedFollowerToDo(jobId, creator, collection, shard, from, to) ==
  Job(jobId, "failedFollower", creator, "", collection, shard, from, to,
      <<>>)

\* FailedFollower::create: the ToDo entry and the push of the shard onto
\* /Target/FailedServers/<from>, without preconditions
FailedFollowerCreate(a, job) ==
  [a EXCEPT
     !.ToDo = Put(@, job.jobId, job),
     !.FailedServers =
        Put(@, job.fromServer,
            IF job.fromServer \in DOMAIN @
            THEN Append(@[job.fromServer], job.shard)
            ELSE <<job.shard>>)]

FailedFollowerStartPrecondition(a, job) == job.shard \notin DOMAIN a.Shards

\* FailedFollower::start
FailedFollowerStart(a, S, job) ==
  LET planned == S.Plan[job.collection].shards[job.shard]
  IN IF FailedFollowerStartPrecondition(a, job)
     THEN [a EXCEPT
             !.Pending = Put(@, job.jobId, S.ToDo[job.jobId]),
             !.ToDo = Without(@, job.jobId),
             !.Plan[job.collection].shards[job.shard] =
                [k \in DOMAIN planned |->
                   IF planned[k] # job.fromServer THEN planned[k]
                   ELSE job.toServer],
             !.Shards = Put(@, job.shard, job.jobId),
             !.PlanVersion = @ + 1]
     ELSE a

\* FailedFollower::status of a Pending job
FailedFollowerStatus(a, S, job) ==
  IF compareServerLists(S.Plan[job.collection].shards[job.shard],
                        S.Current[job.collection][job.shard])
  THEN finish([a EXCEPT !.FailedServers =
                  IF job.fromServer \in DOMAIN @
                  THEN [@ EXCEPT ![job.fromServer] = Remove(@, job.shard)]
                  ELSE @],
              S, job.jobId, ShardResource(job.shard), TRUE)
  ELSE a


-----------------------------------------------------------------------------
(* FailedLeader and UnassumedLeadership: the children FailedServer::start    *)
(* schedules besides FailedFollower                                          *)

FailedLeaderToDo(jobId, creator, collection, shard, from, to) ==
  Job(jobId, "failedLeader", creator, "", collection, shard, from, to, <<>>)

\* FailedLeader::create: as FailedFollower::create
FailedLeaderCreate(a, job) == FailedFollowerCreate(a, job)

\* FailedLeader::start: as FailedFollower::start, but toServer leads the new
\* list and fromServer leaves it
FailedLeaderStart(a, S, job) ==
  LET planned == S.Plan[job.collection].shards[job.shard]
  IN IF FailedFollowerStartPrecondition(a, job)
     THEN [a EXCEPT
             !.Pending = Put(@, job.jobId, S.ToDo[job.jobId]),
             !.ToDo = Without(@, job.jobId),
             !.Plan[job.collection].shards[job.shard] =
                <<job.toServer>>
                  \o RemoveAll(planned, {job.fromServer, job.toServer}),
             !.Shards = Put(@, job.shard, job.jobId),
             !.PlanVersion = @ + 1]
     ELSE a

FailedLeaderStatus(a, S, job) == FailedFollowerStatus(a, S, job)

UnassumedLeadershipToDo(jobId, creator, collection, shard, server) ==
  Job(jobId, "unassumedLeadership", creator, server, collection, shard,
      "", "", <<>>)

UnassumedLeadershipCreate(a, job) ==
  [a EXCEPT !.ToDo = Put(@, job.jobId, job)]

-----------------------------------------------------------------------------
(* FailedServer.  c threads the children loop of FailedServer::start:        *)
(*   c.agency, c.sub (the counter of child ids), c.available, c.thrown       *)

\* The position of the first x in seq, 0 when there is none
IndexOf(seq, x) ==
  IF x \in Range(seq)
  THEN CHOOSE k \in DOMAIN seq :
         seq[k] = x /\ \A m \in 1..(k - 1) : seq[m] # x
  ELSE 0

\* The body of "for (auto const& shard : collection("shards").children())"
\* for a collection that Current knows and whose replicationFactor is > 1
FailedServerShard(c, job, collection, shard, servers, isClone, pick) ==
  LET available == RemoveAll(c.available, Range(servers))
      pos == IndexOf(servers, job.server)
      c0 == [c EXCEPT !.available = available]
  IN IF pos = 1
     THEN IF Len(servers) < 2
          THEN [c0 EXCEPT !.thrown = TRUE]    \* slice()[1] is out of bounds
          ELSE [c0 EXCEPT
                  !.agency = FailedLeaderCreate(@,
                     FailedLeaderToDo(SubJobId(job.jobId, c.sub), job.jobId,
                                      collection, shard, job.server,
                                      servers[2])),
                  !.sub = @ + 1]
     ELSE IF pos > 1 /\ available # <<>> /\ ~isClone
     THEN [c0 EXCEPT
             !.agency = FailedFollowerCreate(@,
                FailedFollowerToDo(SubJobId(job.jobId, c.sub), job.jobId,
                                   collection, shard, job.server,
                                   available[(pick % Len(available)) + 1])),
             !.sub = @ + 1]
     ELSE c0

RECURSIVE FailedServerShards(_, _, _, _, _, _, _, _)
FailedServerShards(c, S, job, collection, shards, k, isClone, rnd) ==
  IF k > Len(shards) \/ c.thrown THEN c
  ELSE FailedServerShards(
         FailedServerShard(c, job, collection, shards[k],
                           S.Plan[collection].shards[shards[k]], isClone,
                           rnd[shards[k]]),
         S, job, collection, shards, k + 1, isClone, rnd)

RECURSIVE UnassumedShards(_, _, _, _, _)
UnassumedShards(c, job, collection, shards, k) ==
  IF k > Len(shards) THEN c
  ELSE UnassumedShards(
         [c EXCEPT
            !.agency = UnassumedLeadershipCreate(@,
               UnassumedLeadershipToDo(SubJobId(job.jobId, c.sub), job.jobId,
                                       collection, shards[k], job.server)),
            !.sub = @ + 1],
         job, collection, shards, k + 1)

\* The body of "for (auto const& collptr : database.second->children())"
FailedServerCollection(c, S, job, collection, rnd) ==
  LET col == S.Plan[collection]
      shards == OrderedShards(col.shards)
  IN IF DOMAIN S.Current[collection] # {}
     THEN IF col.replicationFactor > 1
          THEN FailedServerShards([c EXCEPT !.available = availableServers(S)],
                                  S, job, collection, shards, 1,
                                  col.distributeShardsLike # "", rnd)
          ELSE c
     ELSE UnassumedShards(c, job, collection, shards, 1)

RECURSIVE FailedServerCollections(_, _, _, _, _, _)
FailedServerCollections(c, S, job, collections, k, rnd) ==
  IF k > Len(collections) \/ c.thrown THEN c
  ELSE FailedServerCollections(
         FailedServerCollection(c, S, job, collections[k], rnd),
         S, job, collections, k + 1, rnd)

FailedServerStartPrecondition(a, job) == job.server \notin DOMAIN a.DBServers

\* FailedServer::start.  The lock of a blocked server is an object, which
\* getString() refuses, so the abort of the blocking job is never reached.
\* Returns [agency, thrown].
FailedServerStart(a, S, job, rnd) ==
  IF S.Health[job.server].Status # HEALTH_STATUS_FAILED
  THEN [agency |-> finish(a, S, job.jobId, ServerResource(job.server), FALSE),
        thrown |-> FALSE]
  ELSE IF FailedServerStartPrecondition(a, job)
  THEN LET pending == [a EXCEPT
                         !.Pending = Put(@, job.jobId, S.ToDo[job.jobId]),
                         !.ToDo = Without(@, job.jobId),
                         !.DBServers = Put(@, job.server, job.jobId)]
           c == FailedServerCollections(
                  [agency |-> pending, sub |-> 0, available |-> <<>>,
                   thrown |-> FALSE],
                  S, job, OrderedCollections(S.Plan), 1, rnd)
       IN [agency |-> c.agency, thrown |-> c.thrown]
  ELSE [agency |-> a, thrown |-> FALSE]

\* FailedServer::status of a Pending job
FailedServerStatus(a, S, job) ==
  LET serverHealthy == S.Health[job.server].Status = HEALTH_STATUS_GOOD
      todos == {j \in DOMAIN S.ToDo : IsSubJob(j, job.jobId)}
      pends == {j \in DOMAIN S.Pending : IsSubJob(j, job.jobId)}
      hasOpenChildTasks == (todos # {} /\ ~serverHealthy) \/ pends # {}
      a1 == IF serverHealthy /\ todos # {}
            THEN [a EXCEPT !.ToDo = [j \in DOMAIN @ \ todos |-> @[j]]]
            ELSE a
  IN IF ~hasOpenChildTasks
     THEN finish(a1, S, job.jobId, ServerResource(job.server), TRUE)
     ELSE a1


-----------------------------------------------------------------------------
(* RemoveFollower: the job enforceReplication schedules for a shard with     *)
(* more servers than its replicationFactor                                   *)

RemoveFollowerToDo(jobId, creator, collection, shard) ==
  Job(jobId, "removeFollower", creator, "", collection, shard, "", "", <<>>)

RemoveFollowerCreate(a, job) == [a EXCEPT !.ToDo = Put(@, job.jobId, job)]

\* RemoveFollower::start: one follower, never the leader, leaves the list
RemoveFollowerStart(a, S, job) ==
  LET planned == S.Plan[job.collection].shards[job.shard]
  IN IF Len(planned) < 2
     THEN finish(a, S, job.jobId, ShardResource(job.shard), FALSE)
     ELSE IF job.shard \notin DOMAIN a.Shards
     THEN [a EXCEPT
             !.Pending = Put(@, job.jobId, S.ToDo[job.jobId]),
             !.ToDo = Without(@, job.jobId),
             !.Plan[job.collection].shards[job.shard] =
                SubSeq(planned, 1, Len(planned) - 1),
             !.Shards = Put(@, job.shard, job.jobId),
             !.PlanVersion = @ + 1]
     ELSE a

RemoveFollowerStatus(a, S, job) ==
  IF compareServerLists(S.Plan[job.collection].shards[job.shard],
                        S.Current[job.collection][job.shard])
  THEN finish(a, S, job.jobId, ShardResource(job.shard), TRUE)
  ELSE a

-----------------------------------------------------------------------------
(* RemoveServer *)

RemoveServerToDo(jobId, creator, server) ==
  Job(jobId, "removeServer", creator, server, "", "", "", "", <<>>)

\* RemoveServer::create
RemoveServerCreate(a, job) == [a EXCEPT !.ToDo = Put(@, job.jobId, job)]

\* The shards of the plan in iteration order, as <<collection, shard>>
RECURSIVE PlannedShardsFrom(_, _, _)
PlannedShardsFrom(plan, collections, k) ==
  IF k > Len(collections) THEN <<>>
  ELSE LET shards == OrderedShards(plan[collections[k]].shards)
       IN [m \in DOMAIN shards |-> <<collections[k], shards[m]>>]
            \o PlannedShardsFrom(plan, collections, k + 1)

PlannedShards(plan) == PlannedShardsFrom(plan, OrderedCollections(plan), 1)

MaxOf(ns) == CHOOSE n \in ns : \A m \in ns : m <= n

\* RemoveServer::checkFeasibility
checkFeasibility(S, server) ==
  LET availServers == availableServers(S)
      maxReplFact ==
        MaxOf({1} \cup {S.Plan[c].replicationFactor : c \in DOMAIN S.Plan})
      \* uint64_t numRemaining = availServers.size() - 1 wraps around to the
      \* largest value when no server is available
      tooLarge == availServers # <<>> /\ maxReplFact > Len(availServers) - 1
  IN /\ server \in S.PlanDBServers
     /\ server \notin Range(S.CleanedServers)
     /\ Len(availServers) # 1
     /\ ~tooLarge

\* The loop of RemoveServer::scheduleAddFollowers over the shards: servers
\* shrinks by the holders of every affected shard; the AddFollower jobs
\* themselves are disabled
RECURSIVE ScheduleFrom(_, _, _, _, _)
ScheduleFrom(S, server, all, k, servers) ==
  IF k > Len(all) THEN TRUE
  ELSE LET col == S.Plan[all[k][1]]
           holders == col.shards[all[k][2]]
           skipped == \/ col.distributeShardsLike # ""
                      \/ Cardinality(DOMAIN col.shards) > col.replicationFactor
                      \/ server \notin Range(holders)
           left == RemoveAll(servers, Range(holders))
       IN IF skipped THEN ScheduleFrom(S, server, all, k + 1, servers)
          ELSE IF left = <<>> THEN FALSE
          ELSE ScheduleFrom(S, server, all, k + 1, left)

scheduleAddFollowers(S, server) ==
  /\ Len(availableServers(S)) # 1
  /\ ScheduleFrom(S, server, PlannedShards(S.Plan), 1, availableServers(S))

RemoveServerStartUnguarded(a, job) == TRUE

\* The precondition of the start transaction: the server is not blocked
RemoveServerStartPrecondition(a, job) == job.server \notin DOMAIN a.DBServers

\* RemoveServer::start
RemoveServerStart(a, S, job) ==
  IF RemoveServerStartPrecondition(a, job)
  THEN LET pending == [a EXCEPT
                         !.Pending = Put(@, job.jobId, S.ToDo[job.jobId]),
                         !.ToDo = Without(@, job.jobId),
                         !.DBServers = Put(@, job.server, job.jobId)]
       IN IF ~checkFeasibility(S, job.server)
             \/ ~scheduleAddFollowers(S, job.server)
          THEN finish(pending, S, job.jobId, ServerResource(job.server), FALSE)
          ELSE pending
  ELSE a

\* RemoveServer::status of a Pending job
RemoveServerStatus(a, S, job) ==
  LET found == {j \in DOMAIN S.ToDo \cup DOMAIN S.Pending :
                  IsSubJob(j, job.jobId)}
      affected(c, sh) == job.server \in Range(S.Plan[c].shards[sh])
      unchanged == \A c \in DOMAIN S.Plan : \A sh \in DOMAIN S.Plan[c].shards :
                     affected(c, sh) =>
                       /\ c \in DOMAIN a.Plan
                       /\ sh \in DOMAIN a.Plan[c].shards
                       /\ a.Plan[c].shards[sh] = S.Plan[c].shards[sh]
      cleaned == [a EXCEPT
                    !.Plan = [c \in DOMAIN @ |->
                       [@[c] EXCEPT !.shards = [sh \in DOMAIN @ |->
                          IF c \in DOMAIN S.Plan
                             /\ sh \in DOMAIN S.Plan[c].shards
                             /\ affected(c, sh)
                          THEN Remove(S.Plan[c].shards[sh], job.server)
                          ELSE @[sh]]]],
                    !.CleanedServers = Append(@, job.server),
                    !.PlanVersion = @ + 1]
  IN IF found # {} \/ ~unchanged THEN a
     ELSE finish(cleaned, S, job.jobId, ServerResource(job.server), TRUE)


-----------------------------------------------------------------------------
(* CleanOutServer: scheduled by shrinkCluster *)

CleanOutServerToDo(jobId, creator, server) ==
  Job(jobId, "cleanOutServer", creator, server, "", "", "", "", <<>>)

CleanOutServerCreate(a, job) == [a EXCEPT !.ToDo = Put(@, job.jobId, job)]

-----------------------------------------------------------------------------
(* JobContext: the job object of the kind the entry names, built on the      *)
(* snapshot, and run.  Job::runHelper calls create for a job that is in no    *)
(* bucket, start for one in ToDo and status for one in Pending.               *)

\* JobContext(TODO, jobId, _snapshot, _agent).run(); returns [agency, thrown]
RunToDo(a, S, jobId, rnd) ==
  LET job == S.ToDo[jobId]
      plain(t) == [agency |-> t, thrown |-> FALSE]
  IN CASE job.type = "addFollower" -> plain(AddFollowerStart(a, S, job))
       [] job.type = "failedFollower" ->
            \* the constructor reads pos[status] + _jobId + "database", finds
            \* nothing and finishes the job as failed; _shard is still empty
            plain(finish(a, S, jobId, ShardResource(""), FALSE))
       [] job.type = "failedLeader" -> plain(FailedLeaderStart(a, S, job))
       [] job.type = "failedServer" -> FailedServerStart(a, S, job, rnd)
       [] job.type = "removeServer" -> plain(RemoveServerStart(a, S, job))
       [] job.type = "removeFollower" -> plain(RemoveFollowerStart(a, S, job))
       [] OTHER -> plain(a)

\* JobContext(PENDING, jobId, _snapshot, _agent).run()
RunPending(a, S, jobId) ==
  LET job == S.Pending[jobId]
  IN CASE job.type = "addFollower" -> AddFollowerStatus(a, S, job)
       [] job.type = "failedFollower" ->
            finish(a, S, jobId, ShardResource(""), FALSE)
       [] job.type = "failedLeader" -> FailedLeaderStatus(a, S, job)
       [] job.type = "failedServer" -> FailedServerStatus(a, S, job)
       [] job.type = "removeServer" -> RemoveServerStatus(a, S, job)
       [] job.type = "removeFollower" -> RemoveFollowerStatus(a, S, job)
       [] OTHER -> a

\* The tick after a job has run: an exception ends workJobs
Ran(w, r) == [w EXCEPT !.agency = r.agency, !.thrown = r.thrown]

RECURSIVE WorkToDo(_, _, _, _, _)
WorkToDo(w, S, ids, k, rnd) ==
  IF k > Len(ids) \/ w.thrown THEN w
  ELSE WorkToDo(Ran(w, RunToDo(w.agency, S, ids[k], rnd)),
                S, ids, k + 1, rnd)

RECURSIVE WorkPending(_, _, _, _)
WorkPending(w, S, ids, k) ==
  IF k > Len(ids) \/ w.thrown THEN w
  ELSE WorkPending([w EXCEPT !.agency = RunPending(@, S, ids[k])],
                   S, ids, k + 1)

\* Supervision::workJobs
workJobs(w, S, rnd) ==
  WorkPending(WorkToDo(w, S, OrderedIds(DOMAIN S.ToDo), 1, rnd),
              S, OrderedIds(DOMAIN S.Pending), 1)

-----------------------------------------------------------------------------
(* Supervision::enforceReplication *)

\* The desired number of copies without the case of the satellites
DesiredReplicationPlain(S, collection) ==
  S.Plan[collection].replicationFactor

\* replicationFactor 0 is a satellite: one copy on every available server
DesiredReplication(S, collection) ==
  IF S.Plan[collection].replicationFactor = 0
  THEN Len(availableServers(S))
  ELSE S.Plan[collection].replicationFactor

\* The gate with the scan of ToDo left out for the first shard

GatedByLockOnly(S, shard) ==
  \/ /\ shard # ShardOrder[1]
     /\ \E j \in DOMAIN S.ToDo :
          /\ S.ToDo[j].type \in {"addFollower", "removeFollower", "moveShard"}
          /\ S.ToDo[j].shard = shard
  \/ shard \in DOMAIN S.Shards

\* "there is not yet an addFollower or removeFollower or moveShard job in
\* ToDo for this shard", and the shard is not locked
Gated(S, shard) ==
  \/ \E j \in DOMAIN S.ToDo :
       /\ S.ToDo[j].type \in {"addFollower", "removeFollower", "moveShard"}
       /\ S.ToDo[j].shard = shard
  \/ shard \in DOMAIN S.Shards

\* The shards for which this tick builds an AddFollower job
NeedsFollower(S) ==
  {shard \in Range(ShardOrder) :
     \E c \in DOMAIN S.Plan :
       /\ shard \in DOMAIN S.Plan[c].shards
       /\ S.Plan[c].distributeShardsLike = ""
       /\ Len(S.Plan[c].shards[shard]) < DesiredReplication(S, c)
       /\ ~Gated(S, shard)}

\* The body of the loop over the planned shards; nf[shard] is the
\* newFollower list the AddFollower job is built with
EnforceShard(w, S, collection, shard, nf) ==
  LET actual == Len(S.Plan[collection].shards[shard])
      desired == DesiredReplication(S, collection)
      id == JobIdOf(w.jobId)
  IN IF S.Plan[collection].distributeShardsLike # ""
        \/ actual = desired \/ Gated(S, shard)
     THEN w
     ELSE IF actual < desired
     THEN [w EXCEPT
             !.agency = AddFollowerCreate(@,
                AddFollowerToDo(id, "supervision", collection, shard,
                                nf[shard])),
             !.jobId = @ + 1]
     ELSE [w EXCEPT
             !.agency = RemoveFollowerCreate(@,
                RemoveFollowerToDo(id, "supervision", collection, shard)),
             !.jobId = @ + 1]

RECURSIVE EnforceFrom(_, _, _, _, _)
EnforceFrom(w, S, all, k, nf) ==
  IF k > Len(all) THEN w
  ELSE EnforceFrom(EnforceShard(w, S, all[k][1], all[k][2], nf),
                   S, all, k + 1, nf)

enforceReplication(w, S, nf) == EnforceFrom(w, S, PlannedShards(S.Plan), 1, nf)


-----------------------------------------------------------------------------
(* The other parts of a tick *)

\* Supervision::upgradeAgency: /Target/FailedServers is an object already,
\* so no transaction is issued
upgradeAgency(w, S) == w

\* resolve that follows one link only
resolveOneLink(S, col) ==
  LET proto == IF col \in DOMAIN S.Plan
               THEN S.Plan[col].distributeShardsLike ELSE ""
  IN IF proto = "" THEN col ELSE proto

\* resolve(db, col) of fixPrototypeChain
RECURSIVE resolve(_, _)
resolve(S, col) ==
  LET proto == IF col \in DOMAIN S.Plan
               THEN S.Plan[col].distributeShardsLike ELSE ""
  IN IF proto = "" THEN col ELSE resolve(S, proto)

\* One transaction of the migrate array: the new prototype under the
\* precondition that the old one is still there
FixPrototype(a, S, col) ==
  LET prototype == S.Plan[col].distributeShardsLike
      u == resolve(S, prototype)
  IN IF prototype # "" /\ u # prototype
        /\ col \in DOMAIN a.Plan
        /\ a.Plan[col].distributeShardsLike = prototype
     THEN [a EXCEPT !.Plan[col].distributeShardsLike = u]
     ELSE a

RECURSIVE FixPrototypesFrom(_, _, _, _)
FixPrototypesFrom(a, S, collections, k) ==
  IF k > Len(collections) THEN a
  ELSE FixPrototypesFrom(FixPrototype(a, S, collections[k]), S,
                         collections, k + 1)

\* Supervision::fixPrototypeChain
fixPrototypeChain(w, S) ==
  [w EXCEPT !.agency = FixPrototypesFrom(@, S, OrderedCollections(S.Plan), 1)]

\* Supervision::serverHealth
serverHealth(S, serverName) == S.Health[serverName].Status

\* The failed servers that shrinkCluster still holds useless after its loop
\* over the planned shards
UselessFailedServers(S) ==
  LET avail == availableServers(S)
      failed == {x \in Range(avail) : serverHealth(S, x) = HEALTH_STATUS_FAILED}
      rest == Len(avail) - Cardinality(failed)
      needed(x) == \E c \in DOMAIN S.Plan : \E sh \in DOMAIN S.Plan[c].shards :
                     LET servers == S.Plan[c].shards[sh]
                     IN \E k \in DOMAIN servers :
                          /\ servers[k] = x
                          /\ (k = 1 \/ S.Plan[c].replicationFactor >= rest)
  IN {x \in failed : ~needed(x)}

\* shrinkCluster with the first server of the sorted list cleaned out
shrinkClusterFirst(w, S) ==
  LET avail == availableServers(S)
      failed == {x \in Range(avail) : serverHealth(S, x) = HEALTH_STATUS_FAILED}
      availServers == RemoveAll(avail, failed)
      maxReplFact ==
        MaxOf({1} \cup {S.Plan[c].replicationFactor : c \in DOMAIN S.Plan})
  IN IF DOMAIN S.ToDo # {} \/ DOMAIN S.Pending # {} THEN w
     ELSE IF S.NumberOfDBServers = <<>> THEN w
     ELSE IF ~(S.NumberOfDBServers[1] < Len(avail)) \/ Len(avail) = 1 THEN w
     ELSE IF UselessFailedServers(S) # {} THEN w
     ELSE IF maxReplFact < Len(availServers)
             /\ Len(availServers) > S.NumberOfDBServers[1]
     THEN [w EXCEPT
             !.agency = CleanOutServerCreate(@,
                CleanOutServerToDo(JobIdOf(w.jobId), "supervision",
                                   availServers[1])),
             !.jobId = @ + 1]
     ELSE w

\* Supervision::shrinkCluster.  The RemoveServer job for a useless failed
\* server is disabled in the source.
shrinkCluster(w, S) ==
  LET avail == availableServers(S)
      failed == {x \in Range(avail) : serverHealth(S, x) = HEALTH_STATUS_FAILED}
      availServers == RemoveAll(avail, failed)
      maxReplFact ==
        MaxOf({1} \cup {S.Plan[c].replicationFactor : c \in DOMAIN S.Plan})
  IN IF DOMAIN S.ToDo # {} \/ DOMAIN S.Pending # {} THEN w
     ELSE IF S.NumberOfDBServers = <<>> THEN w
     ELSE IF ~(S.NumberOfDBServers[1] < Len(avail)) \/ Len(avail) = 1 THEN w
     ELSE IF UselessFailedServers(S) # {} THEN w
     ELSE IF maxReplFact < Len(availServers)
             /\ Len(availServers) > S.NumberOfDBServers[1]
     THEN [w EXCEPT
             !.agency = CleanOutServerCreate(@,
                CleanOutServerToDo(JobIdOf(w.jobId), "supervision",
                                   availServers[Len(availServers)])),
             !.jobId = @ + 1]
     ELSE w

\* Supervision::handleJobs
handleJobs(w, S, nf, rnd) ==
  workJobs(enforceReplication(shrinkCluster(w, S), S, nf), S, rnd)

\* Supervision::isShuttingDown
isShuttingDown(S) == S.Shutdown

\* handleShutdown without the wait for the servers
handleShutdownUncleared(w, S, leading) ==
  IF leading THEN [w EXCEPT !.agency.Shutdown = FALSE] ELSE w

\* Supervision::handleShutdown: /Shutdown is deleted once no registered
\* server is GOOD any more
handleShutdown(w, S, leading) ==
  LET serversCleared == \A srv \in S.ServersRegistered :
                          serverHealth(S, srv) # HEALTH_STATUS_GOOD
  IN IF serversCleared /\ leading
     THEN [w EXCEPT !.agency.Shutdown = FALSE]
     ELSE w


-----------------------------------------------------------------------------
(* The supervisor thread.  sup[i] has                                        *)
(*   leading, leaderSince   _agent->leading(), _agent->leaderSince()         *)
(*   jobId, jobIdMax        _jobId, _jobIdMax                                *)
(*   snapshot               <<>> before updateSnapshot, else <<[S, T]>>      *)
(*   selfShutdown           _selfShutdown                                    *)
(*   stopping, running      isStopping(), the thread has not left run()      *)
(*   waiting                the thread is in the first loop of run()         *)
(*   shutdown               "bool shutdown" of run(): the loop was left for  *)
(*                          ApplicationServer::server->beginShutdown()       *)

HeartbeatStatuses == {"SERVING", "STARTUP"}

NoReports == [srv \in AllServers |-> NoReport]

\* The history of an iteration: tick is "none" before the first one, "idle"
\* for an agent that does not lead, "grace" for a leader that skipped the
\* checks and "checked" for one that ran them; news are the servers whose
\* heartbeat the snapshot shows as not yet acknowledged
NoTick == [tick |-> "none", by |-> 0, news |-> {}, reports |-> NoReports]

News(S, T) ==
  {srv \in S.PlanDBServers \cup S.PlanCoordinators : Observed(T, srv).good}

\* Supervision::getUniqueIds: /Sync/LatestID moves on by n and the range
\* below the new value is this supervisor's; "if (ret.accepted)": when the
\* agent does not accept the transaction, _jobId and _jobIdMax stay
getUniqueIds(a, me, accepted) ==
  IF accepted
  THEN [agency |-> [a EXCEPT !.LatestID = @ + IdStep],
        sup |-> [me EXCEPT !.jobIdMax = a.LatestID + IdStep,
                           !.jobId = a.LatestID]]
  ELSE [agency |-> a, sup |-> me]

\* The head of an iteration of the loop of Supervision::run: new job ids
\* when the range is used up, then updateSnapshot
UpdateSnapshot(i) ==
  /\ sup[i].running /\ ~sup[i].waiting
  /\ ~sup[i].stopping /\ sup[i].snapshot = <<>>
  /\ LET me == sup[i]
         ids == IF me.leading /\ (me.jobId = 0 \/ me.jobId = me.jobIdMax)
                THEN getUniqueIds(agency, me, TRUE)
                ELSE [agency |-> agency, sup |-> me]
     IN /\ agency' = ids.agency
        /\ sup' = [sup EXCEPT ![i] =
                     [ids.sup EXCEPT !.snapshot =
                        <<[S |-> ids.agency, T |-> transient[i]]>>]]
  /\ UNCHANGED <<transient, now, alive, hlog, coll>>

\* The newFollower lists an AddFollower job can be built with
NewFollowerLists(S) ==
  LET candidates == IF availableServers(S) = <<>> THEN AllDBServers
                    ELSE Range(availableServers(S))
  IN {q \in UNION {[1..n -> candidates] : n \in 1..MaxNewFollowers} :
        \A k, m \in DOMAIN q : k # m => q[k] # q[m]}

\* The shards for which FailedServer::start consults std::rand()
RandShards(S) ==
  {shard \in Range(ShardOrder) :
     \E j \in DOMAIN S.ToDo : \E c \in DOMAIN S.Plan :
       /\ S.ToDo[j].type = "failedServer"
       /\ shard \in DOMAIN S.Plan[c].shards
       /\ IndexOf(S.Plan[c].shards[shard], S.ToDo[j].server) > 1}

RandValues(S) ==
  IF availableServers(S) = <<>> THEN {0}
  ELSE 0..(Len(availableServers(S)) - 1)

\* The gate of doChecks in Supervision::run
ChecksDueAlways(me) == TRUE

ChecksDue(me) == now - me.leaderSince > GracePeriod

\* The rest of the iteration: me is the Supervision object, A the agency
\* the transactions meet, S and T the snapshots taken
TickKind(me) ==
  IF ~me.leading THEN "idle"
  ELSE IF ChecksDue(me) THEN "checked"
  ELSE "grace"

\* "if (secondsSinceLeader > _gracePeriod) doChecks()"
TickChecks(me, S, T, u) ==
  IF ChecksDue(me) THEN doChecks(u, S, T, me.stopping) ELSE u

\* "if (_agent->leading()) { upgradeAgency(); fixPrototypeChain(); ... }"
TickLeading(me, S, T, w0) ==
  IF me.leading
  THEN TickChecks(me, S, T, fixPrototypeChain(upgradeAgency(w0, S), S))
  ELSE w0

\* "if (isShuttingDown()) ... else if (_selfShutdown) ... else if
\* (_agent->leading()) handleJobs()"
TickJobs(me, S, nf, rnd, w1) ==
  IF isShuttingDown(S)
  THEN [w |-> handleShutdown(w1, S, me.leading), selfShutdown |-> TRUE,
        running |-> TRUE, tick |-> TickKind(me)]
  ELSE IF me.selfShutdown
  THEN [w |-> w1, selfShutdown |-> TRUE, running |-> FALSE,
        tick |-> TickKind(me)]
  ELSE IF me.leading
  THEN [w |-> handleJobs(w1, S, nf, rnd), selfShutdown |-> FALSE,
        running |-> TRUE, tick |-> TickKind(me)]
  ELSE [w |-> w1, selfShutdown |-> FALSE, running |-> TRUE,
        tick |-> TickKind(me)]

\* What the iteration starts from: the agency and the transient store as
\* its transactions meet them
TickStart(i, me, A) ==
  [agency |-> A, transient |-> transient[i], jobId |-> me.jobId,
   hlog |-> NoReports, thrown |-> FALSE]

\* The last job id the model lets a supervisor use: of the ids from 0 on
\* when it has no range, of the ids from the end of its range on when it is
\* about to use that up or has done so, else of its range
IdLimit(me) ==
  IF me.jobIdMax = 0 THEN MaxJobId
  ELSE IF me.jobId + 1 >= me.jobIdMax THEN me.jobIdMax + MaxJobId
  ELSE me.jobIdMax - IdStep + MaxJobId

\* The state after the iteration, for every input it can draw
TickOutcome(i, me, S, T, t) ==
  /\ t.w.jobId <= IdLimit(me)
  /\ agency' = t.w.agency
  /\ transient' = [transient EXCEPT ![i] = t.w.transient]
  /\ hlog' = [tick |-> t.tick, by |-> i, news |-> News(S, T),
              reports |-> t.w.hlog]
  /\ sup' = [sup EXCEPT ![i] =
               [me EXCEPT !.jobId = t.w.jobId,
                          !.snapshot = <<>>,
                          !.selfShutdown = t.selfShutdown,
                          !.running = t.running,
                          !.shutdown = ~t.running]]

\* The values std::rand() yields for the shards it is consulted for
RandOf(r) ==
  [sh \in Range(ShardOrder) |-> IF sh \in DOMAIN r THEN r[sh] ELSE 0]

TickResult(i, me, A, S, T) ==
  \E w1 \in {TickLeading(me, S, T, TickStart(i, me, A))} :
  \E nf \in [NeedsFollower(S) -> NewFollowerLists(S)] :
  \E r \in [RandShards(S) -> RandValues(S)] :
    \E t \in {TickJobs(me, S, nf, RandOf(r), w1)} :
      TickOutcome(i, me, S, T, t)

\* The rest of an iteration whose snapshot has been taken: other writers
\* may have changed the agency in between
Work(i) ==
  /\ sup[i].running /\ sup[i].snapshot # <<>>
  /\ TickResult(i, sup[i], agency, sup[i].snapshot[1].S, sup[i].snapshot[1].T)
  /\ UNCHANGED <<now, alive, coll>>

\* A whole iteration of the loop of Supervision::run with no other writer
\* in between; accepted is the answer of the agent to the transaction of
\* getUniqueIds
TickWith(i, accepted) ==
  /\ sup[i].running /\ ~sup[i].waiting
  /\ ~sup[i].stopping /\ sup[i].snapshot = <<>>
  /\ LET me == sup[i]
         ids == IF me.leading /\ (me.jobId = 0 \/ me.jobId = me.jobIdMax)
                THEN getUniqueIds(agency, me, accepted)
                ELSE [agency |-> agency, sup |-> me]
     IN TickResult(i, ids.sup, ids.agency, ids.agency, transient[i])
  /\ UNCHANGED <<now, alive, coll>>

\* The iteration when the agent accepts what getUniqueIds asks for
Tick(i) == TickWith(i, TRUE)

\* One iteration of the first loop of Supervision::run: it ends when the
\* agency has data (hasData: _snapshot.children().size() > 0) or the thread
\* is stopping, and then the main loop, tested next, does not start
WaitForData(i, hasData) ==
  /\ sup[i].running /\ sup[i].waiting
  /\ sup[i].stopping \/ hasData
  /\ sup' = [sup EXCEPT ![i].waiting = FALSE,
                        ![i].running = ~sup[i].stopping]
  /\ UNCHANGED <<agency, transient, now, alive, hlog, coll>>

\* "while (!this->isStopping())" of the main loop finds the thread stopping:
\* "bool shutdown" is false, run() returns
LoopExit(i) ==
  /\ sup[i].running /\ ~sup[i].waiting
  /\ sup[i].stopping /\ sup[i].snapshot = <<>>
  /\ sup' = [sup EXCEPT ![i].running = FALSE]
  /\ UNCHANGED <<agency, transient, now, alive, hlog, coll>>

\* Supervision::beginShutdown, called by another thread: the stop flag is
\* set and the wait on the condition variable ends
BeginShutdown(i) ==
  /\ ~sup[i].stopping
  /\ sup' = [sup EXCEPT ![i].stopping = TRUE]
  /\ UNCHANGED <<agency, transient, now, alive, hlog, coll>>

-----------------------------------------------------------------------------
(* The environment *)

\* An operator asks the cluster to shut down: /Shutdown is set
SetShutdown ==
  /\ ~agency.Shutdown
  /\ agency' = [agency EXCEPT !.Shutdown = TRUE]
  /\ UNCHANGED <<transient, sup, now, alive, hlog, coll>>

\* A server sends its heartbeat to the agent that leads:
\* /Sync/ServerStates/<srv> = {time, status} in the transient store
Heartbeat(srv, status) ==
  /\ alive[srv]
  /\ srv \in agency.PlanDBServers \cup agency.PlanCoordinators
  /\ \E i \in DOMAIN sup :
       /\ sup[i].leading
       /\ transient[i].Sync[srv] # [time |-> now, status |-> status]
       /\ transient' = [transient EXCEPT ![i].Sync[srv] =
                          [time |-> now, status |-> status]]
  /\ UNCHANGED <<agency, sup, now, alive, hlog, coll>>

\* A server process dies and sends no heartbeat any more
Crash(srv) ==
  /\ alive[srv]
  /\ srv \in agency.PlanDBServers \cup agency.PlanCoordinators
  /\ alive' = [alive EXCEPT ![srv] = FALSE]
  /\ UNCHANGED <<agency, transient, sup, now, hlog, coll>>

\* Time passes
AdvanceTime ==
  /\ now + TimeStep <= MaxTime
  /\ now' = now + TimeStep
  /\ UNCHANGED <<agency, transient, sup, alive, hlog, coll>>

\* Another agent wins the election; the old leader has not noticed yet
Elected(i) ==
  /\ ~sup[i].leading
  /\ sup' = [sup EXCEPT ![i].leading = TRUE, ![i].leaderSince = now]
  /\ UNCHANGED <<agency, transient, now, alive, hlog, coll>>

\* The DB servers of a shard report in /Current what /Plan asks for
SyncCurrent(collection, shard) ==
  /\ collection \in DOMAIN agency.Plan
  /\ shard \in DOMAIN agency.Plan[collection].shards
  /\ agency.Current[collection][shard] # agency.Plan[collection].shards[shard]
  /\ agency' = [agency EXCEPT !.Current[collection][shard] =
                  agency.Plan[collection].shards[shard]]
  /\ UNCHANGED <<transient, sup, now, alive, hlog, coll>>

\* A client asks for the removal of a server: RemoveServer::create with an
\* id of its own from /Sync/LatestID
SubmitRemoveServer(srv) ==
  /\ srv \in agency.PlanDBServers
  /\ \A b \in {"ToDo", "Pending", "Finished", "Failed"} :
       \A j \in DOMAIN agency[b] : agency[b][j].type # "removeServer"
  /\ agency' = RemoveServerCreate(
                 [agency EXCEPT !.LatestID = @ + 1],
                 RemoveServerToDo(JobIdOf(agency.LatestID), "client", srv))
  /\ UNCHANGED <<transient, sup, now, alive, hlog, coll>>


-----------------------------------------------------------------------------
(* Initial states *)

EmptyMap == [x \in {} |-> x]

\* The agency of a cluster with the given servers and collections, before
\* the first tick of any supervisor
AgencyOf(dbservers, coordinators, plan, current) ==
  [Health |-> [srv \in AllServers |-> UnsetHealth],
   ToDo |-> EmptyMap, Pending |-> EmptyMap,
   Finished |-> EmptyMap, Failed |-> EmptyMap,
   Shards |-> EmptyMap, DBServers |-> EmptyMap,
   Plan |-> plan, PlanVersion |-> 1, Current |-> current,
   FailedServers |-> EmptyMap, CleanedServers |-> <<>>,
   LatestID |-> 1, Foxxmaster |-> "",
   PlanDBServers |-> dbservers, PlanCoordinators |-> coordinators,
   ServersRegistered |-> dbservers \cup coordinators,
   Shutdown |-> FALSE, NumberOfDBServers |-> <<>>]

TransientOf == [Sync |-> [srv \in AllServers |-> NoSync],
                Health |-> [srv \in AllServers |-> UnsetHealth],
                FailedServers |-> EmptyMap]

SupervisionOf(leading) ==
  [leading |-> leading, leaderSince |-> 0, jobId |-> 0, jobIdMax |-> 0,
   snapshot |-> <<>>, selfShutdown |-> FALSE, stopping |-> FALSE,
   running |-> TRUE, waiting |-> FALSE, shutdown |-> FALSE]

\* One supervisor, one DB server and one coordinator, no collections
InitHealth ==
  /\ agency = AgencyOf({"A"}, {"CR1"}, EmptyMap, EmptyMap)
  /\ transient = [i \in {1} |-> TransientOf]
  /\ sup = [i \in {1} |-> SupervisionOf(TRUE)]
  /\ now = 0
  /\ alive = [srv \in AllServers |-> TRUE]
  /\ hlog = NoTick
  /\ coll = NoCollection

NextHealth ==
  \/ \E i \in DOMAIN sup : Tick(i)
  \/ \E srv \in AllServers : \E st \in HeartbeatStatuses : Heartbeat(srv, st)
  \/ AdvanceTime

SpecHealth == InitHealth /\ [][NextHealth]_vars


\* Two agents with a supervisor each and one DB server: agent 1 leads, agent
\* 2 may win an election that agent 1 does not notice
InitTwo ==
  /\ agency = AgencyOf({"A"}, {}, EmptyMap, EmptyMap)
  /\ transient = [i \in {1, 2} |-> TransientOf]
  /\ sup = [i \in {1, 2} |-> SupervisionOf(i = 1)]
  /\ now = 0
  /\ alive = [srv \in AllServers |-> TRUE]
  /\ hlog = NoTick
  /\ coll = NoCollection

NextTwo ==
  \/ \E i \in DOMAIN sup : Tick(i)
  \/ \E i \in DOMAIN sup : Elected(i)
  \/ \E srv \in AllServers : Heartbeat(srv, "SERVING")
  \/ AdvanceTime

SpecTwo == InitTwo /\ [][NextTwo]_vars

\* One supervisor that stays leader and one DB server that may die.  The
\* loop of Supervision::run keeps iterating and the clock keeps running.
InitLive ==
  /\ agency = AgencyOf({"A"}, {}, EmptyMap, EmptyMap)
  /\ transient = [i \in {1} |-> TransientOf]
  /\ sup = [i \in {1} |-> SupervisionOf(TRUE)]
  /\ now = 0
  /\ alive = [srv \in AllServers |-> TRUE]
  /\ hlog = NoTick
  /\ coll = NoCollection

NextLive ==
  \/ Tick(1)
  \/ \E srv \in AllServers : Heartbeat(srv, "SERVING")
  \/ \E srv \in AllServers : Crash(srv)
  \/ AdvanceTime

SpecLive ==
  /\ InitLive /\ [][NextLive]_vars
  /\ WF_vars(Tick(1)) /\ WF_vars(AdvanceTime)

\* One supervisor and one DB server; the agent may reject the transaction
\* of getUniqueIds
InitIds ==
  /\ agency = AgencyOf({"A"}, {}, EmptyMap, EmptyMap)
  /\ transient = [i \in {1} |-> TransientOf]
  /\ sup = [i \in {1} |-> SupervisionOf(TRUE)]
  /\ now = 0
  /\ alive = [srv \in AllServers |-> TRUE]
  /\ hlog = NoTick
  /\ coll = NoCollection

NextIds ==
  \/ \E accepted \in BOOLEAN : TickWith(1, accepted)
  \/ \E srv \in AllServers : Heartbeat(srv, "SERVING")
  \/ AdvanceTime

SpecIds == InitIds /\ [][NextIds]_vars

CurrentOf(plan) == [c \in DOMAIN plan |-> plan[c].shards]

\* Two agents with a supervisor each, agent 1 leads; two DB servers, of
\* which B has not come up, and a shard that wants two copies and has one;
\* an operator may ask for the shutdown of the cluster
PlanShutdown ==
  [c1 |-> [replicationFactor |-> 2, distributeShardsLike |-> "",
           shards |-> [s1 |-> <<"A">>]]]

InitShutdown ==
  /\ agency = AgencyOf({"A", "B"}, {}, PlanShutdown, CurrentOf(PlanShutdown))
  /\ transient = [i \in {1, 2} |-> TransientOf]
  /\ sup = [i \in {1, 2} |-> SupervisionOf(i = 1)]
  /\ now = 0
  /\ alive = [srv \in AllServers |-> srv = "A"]
  /\ hlog = NoTick
  /\ coll = NoCollection

NextShutdown ==
  \/ \E i \in DOMAIN sup : Tick(i)
  \/ \E srv \in AllServers : Heartbeat(srv, "SERVING")
  \/ AdvanceTime
  \/ SetShutdown

SpecShutdown == InitShutdown /\ [][NextShutdown]_vars

\* One supervisor whose thread has just been started, and one DB server;
\* beginShutdown may be called at any time.  The thread keeps running.
InitStop ==
  /\ agency = AgencyOf({"A"}, {}, EmptyMap, EmptyMap)
  /\ transient = [i \in {1} |-> TransientOf]
  /\ sup = [i \in {1} |-> [SupervisionOf(TRUE) EXCEPT !.waiting = TRUE]]
  /\ now = 0
  /\ alive = [srv \in AllServers |-> TRUE]
  /\ hlog = NoTick
  /\ coll = NoCollection

NextStop ==
  \/ \E hasData \in BOOLEAN : WaitForData(1, hasData)
  \/ UpdateSnapshot(1)
  \/ Work(1)
  \/ LoopExit(1)
  \/ BeginShutdown(1)
  \/ \E srv \in AllServers : Heartbeat(srv, "SERVING")
  \/ AdvanceTime

SpecStop ==
  /\ InitStop /\ [][NextStop]_vars
  /\ WF_vars(\E hasData \in BOOLEAN : WaitForData(1, hasData))
  /\ WF_vars(Work(1)) /\ WF_vars(LoopExit(1))

\* One supervisor, leader for a while, right after the tick at time 0 in
\* which it persisted FAILED for DB server A, with the failedServer job that
\* took the last id of its range, and acknowledged the last heartbeat of DB
\* server B, which has died since.  A may come back.
GoodHealth == [Status |-> HEALTH_STATUS_GOOD, LastHeartbeatSent |-> 0,
               LastHeartbeatStatus |-> "SERVING", LastHeartbeatAcked |-> 0]

FailedHealth == [Status |-> HEALTH_STATUS_FAILED, LastHeartbeatSent |-> -6,
                 LastHeartbeatStatus |-> "SERVING", LastHeartbeatAcked |-> -6]

HealthRetry == [srv \in AllServers |->
                  IF srv = "A" THEN FailedHealth
                  ELSE IF srv = "B" THEN GoodHealth
                  ELSE UnsetHealth]

InitRetry ==
  /\ agency = [AgencyOf({"A", "B"}, {}, EmptyMap, EmptyMap) EXCEPT
                 !.Health = HealthRetry,
                 !.ToDo = JobIdOf(IdStep) :>
                            FailedServerToDo(JobIdOf(IdStep), "supervision",
                                             "A"),
                 !.FailedServers = "A" :> <<>>,
                 !.LatestID = 1 + IdStep]
  /\ transient = [i \in {1} |->
                    [Sync |-> [srv \in AllServers |->
                                 IF srv = "A"
                                 THEN [time |-> -6, status |-> "SERVING"]
                                 ELSE IF srv = "B"
                                 THEN [time |-> 0, status |-> "SERVING"]
                                 ELSE NoSync],
                     Health |-> HealthRetry,
                     FailedServers |-> "A" :> <<>>]]
  /\ sup = [i \in {1} |->
              [SupervisionOf(TRUE) EXCEPT !.leaderSince = -12,
                                          !.jobId = 1 + IdStep,
                                          !.jobIdMax = 1 + IdStep]]
  /\ now = 0
  /\ alive = [srv \in AllServers |-> srv # "B"]
  /\ hlog = NoTick
  /\ coll = NoCollection

NextRetry ==
  \/ Tick(1)
  \/ \E srv \in AllServers : Heartbeat(srv, "SERVING")
  \/ AdvanceTime

SpecRetry ==
  /\ InitRetry /\ [][NextRetry]_vars
  /\ WF_vars(Tick(1)) /\ WF_vars(AdvanceTime)

\* A cluster at the moment a new leader takes over: three DB servers, all
\* heartbeats acknowledged by the previous leader, server C persisted as
\* FAILED with its failedServer job still in ToDo; collection c1 wants three
\* copies of its shards and has fewer, collection c2 wants two and has them

PlanJobs ==
  [c1 |-> [replicationFactor |-> 3, distributeShardsLike |-> "",
           shards |-> [s1 |-> <<"A", "C">>, s2 |-> <<"B">>]],
   c2 |-> [replicationFactor |-> 2, distributeShardsLike |-> "",
           shards |-> [s3 |-> <<"C", "A">>]]]

AgencyJobs ==
  [AgencyOf({"A", "B", "C"}, {}, PlanJobs, CurrentOf(PlanJobs)) EXCEPT
     !.Health = [srv \in AllServers |->
                   IF srv \in {"A", "B"} THEN GoodHealth
                   ELSE IF srv = "C"
                   THEN [GoodHealth EXCEPT !.Status = HEALTH_STATUS_FAILED]
                   ELSE UnsetHealth],
     !.ToDo = JobIdOf(1) :> FailedServerToDo(JobIdOf(1), "supervision", "C"),
     !.FailedServers = "C" :> <<>>,
     !.LatestID = 1 + IdStep]

InitJobs ==
  /\ agency = AgencyJobs
  /\ transient = [i \in {1} |-> TransientOf]
  /\ sup = [i \in {1} |-> SupervisionOf(TRUE)]
  /\ now = 0
  /\ alive = [srv \in AllServers |-> TRUE]
  /\ hlog = NoTick
  /\ coll = NoCollection

NextJobs ==
  \/ \E i \in DOMAIN sup : UpdateSnapshot(i)
  \/ \E i \in DOMAIN sup : Work(i)
  \/ \E c \in Range(CollectionOrder) : \E sh \in Range(ShardOrder) :
       SyncCurrent(c, sh)
  \/ \E srv \in AllDBServers : SubmitRemoveServer(srv)

SpecJobs == InitJobs /\ [][NextJobs]_vars

\* Two supervisors over a cluster of two good servers and a failed one whose
\* failedServer job is in ToDo, with one shard of replication factor 3 that
\* has two holders: supervisor 1 leads, and keeps running its loop after
\* supervisor 2 has been elected
PlanTwoJobs ==
  [c1 |-> [replicationFactor |-> 3, distributeShardsLike |-> "",
           shards |-> [s1 |-> <<"A", "B">>]]]

InitTwoJobs ==
  /\ agency = [AgencyOf({"A", "B", "C"}, {}, PlanTwoJobs,
                        CurrentOf(PlanTwoJobs)) EXCEPT
                 !.Health = [srv \in AllServers |->
                               IF srv \in {"A", "B"} THEN GoodHealth
                               ELSE IF srv = "C"
                               THEN [GoodHealth EXCEPT
                                       !.Status = HEALTH_STATUS_FAILED]
                               ELSE UnsetHealth],
                 !.ToDo = JobIdOf(1) :>
                            FailedServerToDo(JobIdOf(1), "supervision", "C"),
                 !.FailedServers = "C" :> <<>>,
                 !.LatestID = 1 + IdStep]
  /\ transient = [i \in {1, 2} |-> TransientOf]
  /\ sup = [i \in {1, 2} |-> SupervisionOf(i = 1)]
  /\ now = 0
  /\ alive = [srv \in AllServers |-> TRUE]
  /\ hlog = NoTick
  /\ coll = NoCollection

NextTwoJobs ==
  \/ \E i \in DOMAIN sup : UpdateSnapshot(i)
  \/ \E i \in DOMAIN sup : Work(i)
  \/ \E i \in DOMAIN sup : Elected(i)
  \/ \E c \in Range(CollectionOrder) : \E sh \in Range(ShardOrder) :
       SyncCurrent(c, sh)

SpecTwoJobs == InitTwoJobs /\ [][NextTwoJobs]_vars

-----------------------------------------------------------------------------
(* Properties of the health checks *)

Buckets == {"ToDo", "Pending", "Finished", "Failed"}

\* The ids of the failedServer jobs for srv, in whatever bucket
FailedServerJobs(a, srv) ==
  {j \in UNION {DOMAIN a[b] : b \in Buckets} :
     \E b \in Buckets : /\ j \in DOMAIN a[b]
                        /\ a[b][j].type = "failedServer"
                        /\ a[b][j].server = srv}

\* C1: the persisted Status of a planned server, DB server or coordinator,
\* never goes from GOOD directly to FAILED: no step of the agency takes
\* /Supervision/Health/<srv>/Status from GOOD to FAILED.
C1_NoGoodToFailed ==
  [][\A srv \in AllServers :
       agency.Health[srv].Status = HEALTH_STATUS_GOOD
         => agency'.Health[srv].Status # HEALTH_STATUS_FAILED]_vars

\* C8 as stated: the persisted health entry of a server changes only in a
\* tick whose report carries a Status that differs from the Status last
\* observed.
C8_PersistOnlyOnStatusChange ==
  [][\A srv \in AllServers :
       agency'.Health[srv] # agency.Health[srv]
         => LET r == hlog'.reports[srv]
            IN r.checked /\ r.Status # NoStatus /\ r.Status # r.lastStatus]_vars

\* C8 amended: the persisted health entry of a server changes only in a tick
\* whose report carries a Status that differs from the Status last observed
\* or a heartbeat status that differs from the one last observed; a report
\* with neither goes to the transient store only.
C8_PersistOnlyOnChange ==
  [][\A srv \in AllServers :
       LET r == hlog'.reports[srv]
       IN /\ agency'.Health[srv] # agency.Health[srv]
               => /\ r.checked
                  /\ \/ r.Status # NoStatus /\ r.Status # r.lastStatus
                     \/ r.hbChanged
          /\ (hlog' # hlog /\ r.checked /\ ~r.hbChanged
                /\ (r.Status = NoStatus \/ r.Status = r.lastStatus))
               => /\ ~r.persistent
                  /\ agency'.Health[srv] = agency.Health[srv]]_vars

\* A tick that acknowledged a heartbeat of a server already GOOD: the
\* transient entry has moved on, the persisted one has not
C8_Witness ==
  \E srv \in AllServers :
    LET r == hlog.reports[srv]
    IN /\ r.checked /\ ~r.persistent
       /\ r.Status = HEALTH_STATUS_GOOD /\ r.lastStatus = HEALTH_STATUS_GOOD
       /\ transient[hlog.by].Health[srv].LastHeartbeatAcked
            # agency.Health[srv].LastHeartbeatAcked

\* C9: in a tick of a leader whose leadership is no older than the grace
\* period no health check runs: no persisted or transient health entry
\* changes, no report is issued and no failedServer job appears.
C9_GraceTick ==
  [][(\A i \in DOMAIN sup : now - sup[i].leaderSince <= GracePeriod)
       => /\ agency'.Health = agency.Health
          /\ \A i \in DOMAIN sup : transient'[i].Health = transient[i].Health
          /\ \A srv \in AllServers :
               FailedServerJobs(agency', srv) = FailedServerJobs(agency, srv)
          /\ hlog' # hlog => hlog'.reports = NoReports]_vars

\* A tick within the grace period that had a heartbeat to acknowledge
C9_Witness ==
  /\ hlog.tick = "grace" /\ hlog.news # {}
  /\ now - sup[hlog.by].leaderSince <= GracePeriod
  /\ \A srv \in hlog.news : agency.Health[srv] = UnsetHealth


Stopped(srv) ==
  /\ srv \in agency.PlanDBServers /\ ~alive[srv]
  /\ \A i \in DOMAIN sup :
       /\ transient[i].Sync[srv] # NoSync
       /\ transient[i].Health[srv].LastHeartbeatSent
            = transient[i].Sync[srv].time
       /\ transient[i].Health[srv].LastHeartbeatAcked # NoTime
       /\ transient[i].Health[srv].LastHeartbeatAcked + GracePeriod < MaxTime

\* C10: a planned DB server that stops heartbeating while the supervisor
\* stays leader is eventually persisted as FAILED and has a failedServer job,
\* whatever its Status was when the heartbeats stopped.
C10_EventuallyFailed ==
  Stopped("A") ~> /\ agency.Health["A"].Status = HEALTH_STATUS_FAILED
                  /\ FailedServerJobs(agency, "A") # {}


\* The transaction that carries FAILED and the failedServer job for srv
\* was issued in the last tick and the agency rejected it
Rejected(srv) ==
  /\ hlog.reports[srv].envelope /\ hlog.reports[srv].persistent
  /\ agency.Health[srv].Status # HEALTH_STATUS_FAILED

\* The job ids the model lets a supervisor use of its range are used up but
\* for the two that one tick can take for two DB servers
OutOfIds ==
  \E i \in DOMAIN sup : sup[i].jobId + 2 > IdLimit(sup[i])

\* C11: when the agency rejects the transaction that persists BAD -> FAILED
\* with the failedServer job and the server stays silent, a later tick
\* retries: FAILED and a failedServer job for the server are eventually
\* persisted (as long as the supervisor has job ids left).
C11_RetriedUntilFailed ==
  \A srv \in {"A", "B"} :
    (Rejected(srv) /\ ~alive[srv])
      ~> \/ /\ agency.Health[srv].Status = HEALTH_STATUS_FAILED
            /\ FailedServerJobs(agency, srv) # {}
         \/ OutOfIds


\* C12: as long as a leading supervisor has never obtained a range of job
\* ids, because the transaction on /Sync/LatestID was not accepted, none of
\* its ticks creates a job or starts one: no job id appears in or moves
\* between the buckets of /Target.
C12_NoJobWithoutIds ==
  [][\A i \in DOMAIN sup :
       sup'[i].jobIdMax = 0
         => \A b \in Buckets : DOMAIN agency'[b] = DOMAIN agency[b]]_vars


\* C13: a tick that finds /Shutdown set does no shrinking, no enforcement
\* of replication and no job work (/Plan, the locks and the job buckets stay
\* but for a failedServer job of the health checks); /Shutdown is deleted
\* only by a tick of a leading supervisor that finds no registered server
\* GOOD; and a supervisor leaves its loop for the shutdown of the host in
\* exactly the first tick, after one that handled the shutdown, which finds
\* /Shutdown no longer set.
C13_ShutdownHandling ==
  [][/\ agency.Shutdown
          => /\ \A b \in {"Pending", "Finished", "Failed", "Plan", "PlanVersion",
                           "Shards", "DBServers", "CleanedServers"} :
                  agency'[b] = agency[b]
             /\ \A j \in DOMAIN agency.ToDo :
                  j \in DOMAIN agency'.ToDo /\ agency'.ToDo[j] = agency.ToDo[j]
             /\ \A j \in DOMAIN agency'.ToDo \ DOMAIN agency.ToDo :
                  agency'.ToDo[j].type = "failedServer"
     /\ (agency.Shutdown /\ ~agency'.Shutdown)
          => /\ sup[hlog'.by].leading
             /\ \A srv \in agency.ServersRegistered :
                  agency.Health[srv].Status # HEALTH_STATUS_GOOD
     /\ \A i \in DOMAIN sup :
          sup'[i] # sup[i]
            => /\ sup'[i].selfShutdown
                   <=> (sup[i].selfShutdown \/ agency.Shutdown)
               /\ sup'[i].shutdown
                   <=> (sup[i].selfShutdown /\ ~agency.Shutdown)
               /\ sup'[i].running <=> ~sup'[i].shutdown]_vars

\* Both supervisors have left their loops for the shutdown of the host,
\* after the only server that was GOOD had gone and /Shutdown was deleted
\* with a repair job still waiting
C13_Witness ==
  /\ \A i \in DOMAIN sup : sup[i].shutdown /\ ~sup[i].running
  /\ ~agency.Shutdown
  /\ agency.Health["A"].Status = HEALTH_STATUS_BAD
  /\ \E j \in DOMAIN agency.ToDo : agency.ToDo[j].type = "addFollower"


\* C14: once the stop flag of a supervisor is set, no health entry is
\* written any more, in the agency or in the transient store, and its thread
\* leaves run(), from the first loop or from the main loop.
C14_StopsAndSilent ==
  /\ [][\A i \in DOMAIN sup :
          sup[i].stopping => /\ agency'.Health = agency.Health
                             /\ transient'[i].Health = transient[i].Health]_vars
  /\ \A i \in {1} : sup[i].stopping ~> (~sup[i].running \/ OutOfIds)

\* The thread has left the main loop after an iteration that found the stop
\* flag set and a heartbeat to acknowledge, and wrote no report for it
C14_Witness ==
  /\ sup[1].stopping /\ ~sup[1].running /\ ~sup[1].shutdown
  /\ hlog.tick = "checked" /\ "A" \in hlog.news
  /\ hlog.reports["A"].checked /\ ~hlog.reports["A"].persistent
  /\ transient[1].Health["A"].LastHeartbeatSent # transient[1].Sync["A"].time


-----------------------------------------------------------------------------
(* Properties of the jobs *)

ShardJobKinds == {"addFollower", "failedFollower", "failedLeader",
                  "removeFollower"}
ServerJobKinds == {"failedServer", "removeServer"}

\* The Pending jobs that work on a shard, or on a server, under its lock
PendingOnShard(a, shard) ==
  {j \in DOMAIN a.Pending : /\ a.Pending[j].type \in ShardJobKinds
                            /\ a.Pending[j].shard = shard}

PendingOnServer(a, srv) ==
  {j \in DOMAIN a.Pending : /\ a.Pending[j].type \in ServerJobKinds
                            /\ a.Pending[j].server = srv}

\* The resource the start transaction of a job wants is blocked
Blocked(a, job) ==
  \/ job.type \in ShardJobKinds /\ job.shard \in DOMAIN a.Shards
  \/ job.type \in ServerJobKinds /\ job.server \in DOMAIN a.DBServers

NoRand == [sh \in Range(ShardOrder) |-> 0]

BucketRank(a, j) ==
  IF j \in DOMAIN a.ToDo THEN 1
  ELSE IF j \in DOMAIN a.Pending THEN 2
  ELSE IF j \in DOMAIN a.Finished \/ j \in DOMAIN a.Failed THEN 3
  ELSE 0

AllJobs(a) == UNION {DOMAIN a[b] : b \in Buckets}

\* C4: a job id is in at most one of ToDo, Pending, Finished and Failed, and
\* a step of the agency moves a job only forwards: from ToDo to Pending, or
\* to Finished or Failed; never back, and never from Finished to Failed or
\* from Failed to Finished.
C4_OneBucketForwardOnly ==
  [][/\ \A b1, b2 \in Buckets :
          b1 # b2 => DOMAIN agency'[b1] \cap DOMAIN agency'[b2] = {}
     /\ \A j \in AllJobs(agency) \cap AllJobs(agency') :
          /\ BucketRank(agency', j) >= BucketRank(agency, j)
          /\ j \in DOMAIN agency.Finished => j \in DOMAIN agency'.Finished
          /\ j \in DOMAIN agency.Failed => j \in DOMAIN agency'.Failed]_vars

\* Jobs have gone all the way: one is Finished, one is Failed, one is Pending
C4_Witness ==
  /\ DOMAIN agency.Finished # {}
  /\ DOMAIN agency.Failed # {}
  /\ DOMAIN agency.Pending # {}


\* The addFollower entries of ToDo for a shard
AddFollowerToDos(a, shard) ==
  {j \in DOMAIN a.ToDo : /\ a.ToDo[j].type = "addFollower"
                         /\ a.ToDo[j].shard = shard}

\* The planned shards of replication factor 3 with only 2 holders
TwoOfThree(a) ==
  {shard \in Range(ShardOrder) :
     \E c \in DOMAIN a.Plan :
       /\ shard \in DOMAIN a.Plan[c].shards
       /\ a.Plan[c].distributeShardsLike = ""
       /\ a.Plan[c].replicationFactor = 3
       /\ Len(a.Plan[c].shards[shard]) = 2}

Works(i) ==
  /\ sup[i].snapshot # <<>> /\ sup'[i].snapshot = <<>>
  /\ sup[i].leading /\ ~sup[i].selfShutdown
  /\ ~sup[i].snapshot[1].S.Shutdown

\* The addFollower jobs this step starts
StartedAddFollowers ==
  {j \in DOMAIN agency.ToDo \cap DOMAIN agency'.Pending :
     agency.ToDo[j].type = "addFollower"}

RepairKinds == {"addFollower", "removeFollower", "moveShard"}

\* The repair jobs of ToDo for a shard
RepairToDos(a, shard) ==
  {j \in DOMAIN a.ToDo : /\ a.ToDo[j].type \in RepairKinds
                         /\ a.ToDo[j].shard = shard}

\* C7: when a supervisor works on a snapshot that another supervisor has
\* worked on before it, its conflicting transactions do not commit: it adds
\* no repair job for a shard that has got one in ToDo since the snapshot,
\* and it starts no job that has left ToDo since the snapshot.
C7_AtMostOneCommits ==
  [][\A i \in DOMAIN sup :
       Works(i) =>
         LET S == sup[i].snapshot[1].S
         IN /\ \A shard \in NeedsFollower(S) :
                 RepairToDos(agency, shard) # {}
                   => RepairToDos(agency', shard) = RepairToDos(agency, shard)
            /\ \A j \in DOMAIN S.ToDo :
                 j \notin DOMAIN agency.ToDo
                   => (j \in DOMAIN agency'.Pending
                         <=> j \in DOMAIN agency.Pending)]_vars

-----------------------------------------------------------------------------
(***************************************************************************)
(* The storage engine of a DB server: one MMFiles collection               *)
(* (MMFilesCollection.cpp, LogicalCollection.cpp).  The collection is a    *)
(* record; every public operation is one step, taken under the lock the    *)
(* code holds for it, and what the environment answers (a file that is     *)
(* full, an index that refuses an entry, a transaction that cannot take    *)
(* the operation) is an input of the step.                                 *)
(***************************************************************************)

(* Bounds of the storage model *)

MaxFiles == 3          \* files a collection creates
MaxRevision == 3       \* readings of the hybrid logical clock
MaxMarkers == 3        \* markers of the files a collection is loaded from

Keys == {"a", "b"}     \* the _key values in use
Values == {0, 1}       \* the values of an attribute
NoValue == -1          \* an attribute the slice does not have
Revisions == 1..MaxRevision
Fids == 1..MaxFiles

(* Program constants *)

NumSecondary == 2      \* _indexes[1], _indexes[2]; _indexes[0] is primary

TRI_ERROR_NO_ERROR == "TRI_ERROR_NO_ERROR"
TRI_ERROR_INTERNAL == "TRI_ERROR_INTERNAL"
TRI_ERROR_SYS_ERROR == "TRI_ERROR_SYS_ERROR"
TRI_ERROR_OUT_OF_MEMORY == "TRI_ERROR_OUT_OF_MEMORY"
TRI_ERROR_DEBUG == "TRI_ERROR_DEBUG"
TRI_ERROR_LOCK_TIMEOUT == "TRI_ERROR_LOCK_TIMEOUT"
TRI_ERROR_ARANGO_NO_JOURNAL == "TRI_ERROR_ARANGO_NO_JOURNAL"
TRI_ERROR_ARANGO_DATAFILE_FULL == "TRI_ERROR_ARANGO_DATAFILE_FULL"
TRI_ERROR_ARANGO_CONFLICT == "TRI_ERROR_ARANGO_CONFLICT"
TRI_ERROR_ARANGO_DOCUMENT_NOT_FOUND == "TRI_ERROR_ARANGO_DOCUMENT_NOT_FOUND"
TRI_ERROR_ARANGO_UNIQUE_CONSTRAINT_VIOLATED ==
  "TRI_ERROR_ARANGO_UNIQUE_CONSTRAINT_VIOLATED"
TRI_ERROR_CLUSTER_MUST_NOT_CHANGE_SHARDING_ATTRIBUTES ==
  "TRI_ERROR_CLUSTER_MUST_NOT_CHANGE_SHARDING_ATTRIBUTES"

ROLE_DBSERVER == "DBSERVER"   \* ServerState::isDBServer(trx->serverRole())
ROLE_SINGLE == "SINGLE"

(* Documents, markers and files *)

\* A document: _key, _rev, the attribute sk that is the shard key and that
\* _indexes[1] covers, and the attribute v that _indexes[2] covers
DocumentOf(key, rev, sk, v) == [key |-> key, rev |-> rev, sk |-> sk, v |-> v]

NoDocument == DocumentOf("", 0, NoValue, NoValue)    \* nullptr, a None slice

TRI_DF_MARKER_VPACK_DOCUMENT == "document"
TRI_DF_MARKER_VPACK_REMOVE == "remove"

MarkerOf(type, doc) == [type |-> type, doc |-> doc]

\* MMFilesDocumentPosition
PositionOf(doc, fid, isInWal) == [dataptr |-> doc, fid |-> fid, wal |-> isInWal]

NoPosition == PositionOf(NoDocument, 0, FALSE)

\* DatafileStatisticsContainer
NoStats == [numberAlive |-> 0, numberDead |-> 0, numberDeletions |-> 0]

\* MMFilesDatafile: id is the object, fid the file id it carries
DatafileOf(id, fid, isCompactor) ==
  [id |-> id, fid |-> fid, sealed |-> FALSE, compactor |-> isCompactor,
   markers |-> <<>>]

\* What the last call of an operation of the collection returned
CallOf(op, res) ==
  [op |-> op, res |-> res, datafile |-> 0, key |-> "", oldRev |-> 0,
   newRev |-> 0, sharding |-> FALSE, recovery |-> FALSE,
   indexed |-> FALSE, failed |-> 0]

NoCall == CallOf("", TRI_ERROR_NO_ERROR)

\* The collection after construction, with no file
CollectionOf(role) ==
  [role |-> role,
   journals |-> <<>>, datafiles |-> <<>>, compactors |-> <<>>,
   primary |-> [k \in Keys |-> 0],
   secondary |-> [i \in 1..NumSecondary |-> {}],
   cache |-> [r \in Revisions |-> NoPosition],
   stats |-> [f \in Fids |-> NoStats], dead |-> [f \in Fids |-> 0],
   wal |-> <<>>, hlc |-> 0, tick |-> 0, last |-> NoCall]

Returned(c, op, res) == [c EXCEPT !.last = CallOf(op, res)]

(* The datafile set *)

\* createDatafile: the file and its entry in the statistics
createDatafile(c, fid, isCompactor) ==
  DatafileOf(c.tick + 1, fid, isCompactor)

selectJournalAlways(c, created) ==
  IF ~created THEN c
  ELSE [c EXCEPT !.journals = Append(@, DatafileOf(c.tick + 1, c.tick + 1,
                                                   FALSE)),
                 !.tick = @ + 1]

\* "if (_journals.empty())" of reserveJournalSpace: a journal is created
\* when there is none, unless createDatafile throws
selectJournal(c, created) ==
  IF c.journals # <<>> \/ ~created THEN c
  ELSE [c EXCEPT !.journals = Append(@, createDatafile(c, c.tick + 1, FALSE)),
                 !.tick = @ + 1]

\* sealDatafile of a physical file: sealed is whether datafile->seal()
\* succeeds, renamed whether datafile->rename() does.  A journal that is
\* sealed and cannot be renamed stays sealed, and the error of the rename
\* is what the function returns
sealDatafile(datafile, sealed, renamed, isCompactor) ==
  IF ~sealed THEN [file |-> datafile, res |-> TRI_ERROR_INTERNAL]
  ELSE IF ~isCompactor /\ ~renamed
  THEN [file |-> [datafile EXCEPT !.sealed = TRUE], res |-> TRI_ERROR_SYS_ERROR]
  ELSE [file |-> [datafile EXCEPT !.sealed = TRUE],
        res |-> TRI_ERROR_NO_ERROR]

\* "journal is full, close it and sync": the journal goes to _datafiles
\* whether or not it could be sealed
sealAndMove(c, sealed) ==
  [c EXCEPT !.datafiles = Append(@, [c.journals[1] EXCEPT !.sealed = sealed]),
            !.journals = Tail(@)]

ReserveEnvs ==
  [create : BOOLEAN, reserve : {"ok", "full", "error"}, seal : BOOLEAN,
   rename : BOOLEAN, again : BOOLEAN]

ReturnedDatafile(c, op, datafile) ==
  [c EXCEPT !.last = [CallOf(op, TRI_ERROR_NO_ERROR)
                        EXCEPT !.datafile = datafile.id]]

\* reserveJournalSpace; env.reserve is what reserveElement answers for the
\* journal in place, env.again whether it succeeds for a journal just made
reserveJournalSpace(c, env) ==
  LET op == "reserveJournalSpace"
      c1 == selectJournal(c, env.create)
  IN IF c1.journals = <<>> THEN Returned(c1, op, TRI_ERROR_INTERNAL)
     ELSE IF env.reserve = "ok" THEN ReturnedDatafile(c1, op, c1.journals[1])
     ELSE IF env.reserve = "error" THEN Returned(c1, op, TRI_ERROR_INTERNAL)
     ELSE LET s == sealDatafile(c1.journals[1], env.seal, env.rename, FALSE)
              c2 == sealAndMove(c1, s.file.sealed)
              c3 == selectJournal(c2, env.create)
          IN IF s.res # TRI_ERROR_NO_ERROR THEN Returned(c2, op, s.res)
             ELSE IF c3.journals = <<>>
                  THEN Returned(c3, op, TRI_ERROR_INTERNAL)
             ELSE IF env.again
                  THEN ReturnedDatafile(c3, op, c3.journals[1])
             ELSE Returned(c3, op, TRI_ERROR_INTERNAL)

rotateActiveJournal(c, sealed, renamed) ==
  LET op == "rotateActiveJournal"
      s == sealDatafile(c.journals[1], sealed, renamed, FALSE)
  IN IF c.journals = <<>> THEN Returned(c, op, TRI_ERROR_ARANGO_NO_JOURNAL)
     ELSE IF s.res # TRI_ERROR_NO_ERROR
     THEN Returned([c EXCEPT !.journals[1] = s.file], op, s.res)
     ELSE Returned([c EXCEPT !.datafiles = Append(@, s.file),
                             !.journals = Tail(@)],
                   op, TRI_ERROR_NO_ERROR)

syncActiveJournal(c, ok) ==
  LET op == "syncActiveJournal"
  IN IF c.journals = <<>> \/ ok THEN Returned(c, op, TRI_ERROR_NO_ERROR)
     ELSE Returned(c, op, TRI_ERROR_INTERNAL)

createCompactor(c, fid, created) ==
  LET op == "createCompactor"
  IN IF ~created THEN Returned(c, op, TRI_ERROR_OUT_OF_MEMORY)
     ELSE ReturnedDatafile(
            [c EXCEPT !.compactors = Append(@, createDatafile(c, fid, TRUE)),
                      !.tick = @ + 1],
            op, createDatafile(c, fid, TRUE))

closeCompactor(c, id, sealed) ==
  LET op == "closeCompactor"
  IN IF Len(c.compactors) # 1 THEN Returned(c, op, TRI_ERROR_ARANGO_NO_JOURNAL)
     ELSE IF c.compactors[1].id # id THEN Returned(c, op, TRI_ERROR_INTERNAL)
     ELSE LET s == sealDatafile(c.compactors[1], sealed, TRUE, TRUE)
          IN Returned([c EXCEPT !.compactors[1] = s.file], op, s.res)

\* The first position of the vector that holds a file with this fid, or 0
PositionOfFid(files, fid) ==
  IF \E i \in DOMAIN files : files[i].fid = fid
  THEN CHOOSE i \in DOMAIN files :
         /\ files[i].fid = fid
         /\ \A j \in 1..(i - 1) : files[j].fid # fid
  ELSE 0

\* The call was about the file with this fid
About(c, fid) == [c EXCEPT !.last.datafile = fid]

replaceDatafileKeepsCompactor(c, fid, compactor) ==
  LET op == "replaceDatafileWithCompactor"
      i == PositionOfFid(c.datafiles, fid)
  IN IF i = 0 THEN About(Returned(c, op, TRI_ERROR_INTERNAL), fid)
     ELSE About(Returned([c EXCEPT !.datafiles[i] = compactor],
                         op, TRI_ERROR_NO_ERROR),
                fid)

replaceDatafileWithCompactor(c, fid, compactor) ==
  LET op == "replaceDatafileWithCompactor"
      i == PositionOfFid(c.datafiles, fid)
  IN IF i = 0 THEN About(Returned(c, op, TRI_ERROR_INTERNAL), fid)
     ELSE About(Returned([c EXCEPT !.datafiles[i] = compactor,
                                   !.compactors = Tail(@)],
                         op, TRI_ERROR_NO_ERROR),
                fid)

\* std::vector::erase of the element that is this object
EraseFile(files, id) == SelectSeq(files, LAMBDA f : f.id # id)

removeCompactor(c, id) ==
  Returned([c EXCEPT !.compactors = EraseFile(@, id)], "removeCompactor",
           IF \E i \in DOMAIN c.compactors : c.compactors[i].id = id
           THEN TRI_ERROR_NO_ERROR ELSE TRI_ERROR_INTERNAL)

removeDatafile(c, id) ==
  Returned([c EXCEPT !.datafiles = EraseFile(@, id)], "removeDatafile",
           IF \E i \in DOMAIN c.datafiles : c.datafiles[i].id = id
           THEN TRI_ERROR_NO_ERROR ELSE TRI_ERROR_INTERNAL)

close(c) ==
  Returned([c EXCEPT !.compactors = <<>>, !.journals = <<>>,
                     !.datafiles = <<>>,
                     !.cache = [r \in Revisions |-> NoPosition]],
           "close", TRI_ERROR_NO_ERROR)

(* The revision cache and the indexes *)

Result(c, res) == [c |-> c, res |-> res]

insertRevision(c, revisionId, doc, fid, isInWal) ==
  [c EXCEPT !.cache[revisionId] = PositionOf(doc, fid, isInWal)]

removeRevisionNot(c, revisionId, updateStats) == c

\* removeRevision; with updateStats the revision of a datafile is counted
\* as dead there (_datafileStatistics.increaseDead)
removeRevision(c, revisionId, updateStats) ==
  LET old == c.cache[revisionId]
  IN IF updateStats /\ old # NoPosition /\ ~old.wal /\ old.fid # 0
     THEN [c EXCEPT !.cache[revisionId] = NoPosition,
                    !.dead[old.fid] = @ + 1]
     ELSE [c EXCEPT !.cache[revisionId] = NoPosition]

\* insertPrimaryIndex: primaryIndex()->insertKey, unique in the key
insertPrimaryIndex(c, revisionId, doc, fails) ==
  IF fails THEN Result(c, TRI_ERROR_DEBUG)
  ELSE IF c.primary[doc.key] # 0
  THEN Result(c, TRI_ERROR_ARANGO_UNIQUE_CONSTRAINT_VIOLATED)
  ELSE Result([c EXCEPT !.primary[doc.key] = revisionId], TRI_ERROR_NO_ERROR)

\* deletePrimaryIndex: primaryIndex()->removeKey, which looks at the key
deletePrimaryIndex(c, revisionId, doc, fails) ==
  IF fails THEN Result(c, TRI_ERROR_DEBUG)
  ELSE IF c.primary[doc.key] = 0
  THEN Result(c, TRI_ERROR_ARANGO_DOCUMENT_NOT_FOUND)
  ELSE Result([c EXCEPT !.primary[doc.key] = 0], TRI_ERROR_NO_ERROR)

\* The entry of a document in _indexes[i]
IndexEntry(i, revisionId, doc) ==
  <<IF i = 1 THEN doc.sk ELSE doc.v, revisionId>>

\* insertSecondaryIndexes: idx->insert fails for the index failing (0: for
\* none); out of memory ends the loop, any other error does not
insertSecondaryIndexes(c, revisionId, doc, failing, oom) ==
  Result([c EXCEPT !.secondary =
            [i \in 1..NumSecondary |->
               IF i = failing \/ (failing # 0 /\ oom /\ i > failing)
               THEN @[i]
               ELSE @[i] \cup {IndexEntry(i, revisionId, doc)}]],
         IF failing = 0 THEN TRI_ERROR_NO_ERROR
         ELSE IF oom THEN TRI_ERROR_OUT_OF_MEMORY
         ELSE TRI_ERROR_ARANGO_UNIQUE_CONSTRAINT_VIOLATED)

\* deleteSecondaryIndexes: idx->remove fails for the index failing
deleteSecondaryIndexes(c, revisionId, doc, failing) ==
  Result([c EXCEPT !.secondary =
            [i \in 1..NumSecondary |->
               IF i = failing THEN @[i]
               ELSE @[i] \ {IndexEntry(i, revisionId, doc)}]],
         IF failing = 0 THEN TRI_ERROR_NO_ERROR ELSE TRI_ERROR_INTERNAL)

(* What fails in a write operation: at most one step of it *)

NoFault == [at |-> "none", index |-> 0, oom |-> FALSE]

Faults ==
  {NoFault}
    \cup {[at |-> at, index |-> 0, oom |-> FALSE] :
            at \in {"lock", "insertPrimary", "deletePrimary", "addOperation"}}
    \cup {[at |-> "insertSecondary", index |-> i, oom |-> oom] :
            i \in 1..NumSecondary, oom \in BOOLEAN}
    \cup {[at |-> "deleteSecondary", index |-> i, oom |-> FALSE] :
            i \in 1..NumSecondary}

\* The steps an operation of a type has
FaultsOf(type) ==
  {fault \in Faults :
     fault.at \in (IF type = "insert"
                   THEN {"none", "lock", "insertPrimary", "insertSecondary",
                         "addOperation"}
                   ELSE IF type = "remove"
                   THEN {"none", "deleteSecondary", "deletePrimary",
                         "addOperation"}
                   ELSE {"none", "deleteSecondary", "insertSecondary",
                         "addOperation"})}

FailingAt(fault, at) == IF fault.at = at THEN fault.index ELSE 0

TRI_VOC_DOCUMENT_OPERATION_INSERT == "insert"
TRI_VOC_DOCUMENT_OPERATION_UPDATE == "update"
TRI_VOC_DOCUMENT_OPERATION_REPLACE == "replace"
TRI_VOC_DOCUMENT_OPERATION_REMOVE == "remove"

\* What a low level worker returns; indexed: operation.indexed() was called
Worked(c, res, indexed) == [c |-> c, res |-> res, indexed |-> indexed]

\* MMFilesTransactionState::addOperation: the marker of the operation goes
\* to the write-ahead log, from where the collector moves it to the journal
addOperation(c, marker, fails) ==
  IF fails THEN Worked(c, TRI_ERROR_INTERNAL, TRUE)
  ELSE Worked([c EXCEPT !.wal = Append(@, marker)], TRI_ERROR_NO_ERROR, TRUE)

insertIndexesNoUndo(c, revisionId, doc, fault) ==
  LET p == insertPrimaryIndex(c, revisionId, doc, fault.at = "insertPrimary")
  IN IF p.res # TRI_ERROR_NO_ERROR THEN p
     ELSE insertSecondaryIndexes(p.c, revisionId, doc,
                                 FailingAt(fault, "insertSecondary"),
                                 fault.oom)

\* LogicalCollection::insertIndexes
insertIndexes(c, revisionId, doc, fault) ==
  LET p == insertPrimaryIndex(c, revisionId, doc, fault.at = "insertPrimary")
      s == insertSecondaryIndexes(p.c, revisionId, doc,
                                  FailingAt(fault, "insertSecondary"),
                                  fault.oom)
  IN IF p.res # TRI_ERROR_NO_ERROR THEN p
     ELSE IF s.res = TRI_ERROR_NO_ERROR THEN s
     ELSE Result(
            deletePrimaryIndex(
              deleteSecondaryIndexes(s.c, revisionId, doc, 0).c,
              revisionId, doc, FALSE).c,
            s.res)

insertDocument(c, revisionId, doc, fault) ==
  LET i == insertIndexes(c, revisionId, doc, fault)
  IN IF i.res # TRI_ERROR_NO_ERROR THEN Worked(i.c, i.res, FALSE)
     ELSE addOperation(i.c, MarkerOf(TRI_DF_MARKER_VPACK_DOCUMENT, doc),
                       fault.at = "addOperation")

\* LogicalCollection::updateDocument
updateDocument(c, oldRevisionId, oldDoc, newRevisionId, newDoc, fault) ==
  LET d == deleteSecondaryIndexes(c, oldRevisionId, oldDoc,
                                  FailingAt(fault, "deleteSecondary"))
      s == insertSecondaryIndexes(d.c, newRevisionId, newDoc,
                                  FailingAt(fault, "insertSecondary"),
                                  fault.oom)
      e == IF s.c.primary[newDoc.key] # 0
           THEN [s.c EXCEPT !.primary[newDoc.key] = newRevisionId]
           ELSE s.c
      r == IF oldRevisionId # newRevisionId
           THEN removeRevision(e, oldRevisionId, TRUE)
           ELSE e
  IN IF d.res # TRI_ERROR_NO_ERROR
     THEN Worked(insertSecondaryIndexes(d.c, oldRevisionId, oldDoc,
                                        0, FALSE).c,
                 d.res, FALSE)
     ELSE IF s.res # TRI_ERROR_NO_ERROR
     THEN Worked(insertSecondaryIndexes(
                   deleteSecondaryIndexes(s.c, newRevisionId, newDoc, 0).c,
                   oldRevisionId, oldDoc, 0, FALSE).c,
                 s.res, FALSE)
     ELSE addOperation(r, MarkerOf(TRI_DF_MARKER_VPACK_DOCUMENT, newDoc),
                       fault.at = "addOperation")

\* LogicalCollection::rollbackOperation
rollbackOperation(c, type, oldRevisionId, oldDoc, newRevisionId, newDoc) ==
  IF type = TRI_VOC_DOCUMENT_OPERATION_INSERT
  THEN deleteSecondaryIndexes(
         deletePrimaryIndex(c, newRevisionId, newDoc, FALSE).c,
         newRevisionId, newDoc, 0).c
  ELSE IF type = TRI_VOC_DOCUMENT_OPERATION_REMOVE
  THEN LET p == insertPrimaryIndex(c, oldRevisionId, oldDoc, FALSE)
       IN IF p.res = TRI_ERROR_NO_ERROR
          THEN insertSecondaryIndexes(p.c, oldRevisionId, oldDoc,
                                      0, FALSE).c
          ELSE p.c
  ELSE insertSecondaryIndexes(
         deleteSecondaryIndexes(c, newRevisionId, newDoc, 0).c,
         oldRevisionId, oldDoc, 0, FALSE).c

\* MMFilesDocumentOperation::revert: "reverts all index modifications in
\* reverse order, removes the revision from cache ... The collection stays
\* consistent": the indexes of an indexed operation are rolled back, the
\* entry of the primary index points to the old revision again, the new
\* revision leaves the cache and the old revision, which the operation
\* knows by its id and its data (setRevisions), is in the cache
revert(c, type, oldDoc, newDoc, indexed) ==
  LET c1 == IF indexed
            THEN rollbackOperation(c, type, oldDoc.rev, oldDoc,
                                   newDoc.rev, newDoc)
            ELSE c
      c2 == IF /\ indexed
               /\ type \in {TRI_VOC_DOCUMENT_OPERATION_UPDATE,
                            TRI_VOC_DOCUMENT_OPERATION_REPLACE}
               /\ c1.primary[oldDoc.key] # 0
            THEN [c1 EXCEPT !.primary[oldDoc.key] = oldDoc.rev]
            ELSE c1
      c3 == IF type # TRI_VOC_DOCUMENT_OPERATION_REMOVE
               /\ newDoc.rev # oldDoc.rev
            THEN removeRevision(c2, newDoc.rev, TRUE)
            ELSE c2
  IN IF type # TRI_VOC_DOCUMENT_OPERATION_INSERT
        /\ c3.cache[oldDoc.rev] = NoPosition
     THEN insertRevision(c3, oldDoc.rev, oldDoc, 0, TRUE)
     ELSE c3

(* The write operations *)

\* The record of a call on a document
DocumentCall(op, res, key, oldRev, newRev, sharding) ==
  [CallOf(op, res) EXCEPT !.key = key, !.oldRev = oldRev, !.newRev = newRev,
                          !.sharding = sharding]

Done(c, op, res, key, oldRev, newRev, sharding) ==
  [c EXCEPT !.last = DocumentCall(op, res, key, oldRev, newRev, sharding)]

Indexed(c, indexed) == [c EXCEPT !.last.indexed = indexed]

\* TRI_HybridLogicalClock()
TRI_HybridLogicalClock(c) == c.hlc + 1

\* lookupDocument: the entry of the primary index and, with readRevision,
\* the data of its revision; lookupRevisionVPack throws when the cache does
\* not have the revision
lookupDocument(c, key) ==
  IF c.primary[key] = 0
  THEN [res |-> TRI_ERROR_ARANGO_DOCUMENT_NOT_FOUND, doc |-> NoDocument]
  ELSE IF c.cache[c.primary[key]] = NoPosition
  THEN [res |-> TRI_ERROR_INTERNAL, doc |-> NoDocument]
  ELSE [res |-> TRI_ERROR_NO_ERROR, doc |-> c.cache[c.primary[key]].dataptr]

\* LogicalCollection::checkRevision
checkRevision(expected, found) ==
  IF expected # 0 /\ found # expected THEN TRI_ERROR_ARANGO_CONFLICT
  ELSE TRI_ERROR_NO_ERROR

\* mergeObjectsForUpdate: the attributes of the patch replace those of the
\* old document, _rev is the new revision
mergeObjectsForUpdate(oldDoc, sk, v, rev) ==
  DocumentOf(oldDoc.key, rev,
             IF sk = NoValue THEN oldDoc.sk ELSE sk,
             IF v = NoValue THEN oldDoc.v ELSE v)

\* shardKeysChanged: the value of a shard key attribute differs
shardKeysChanged(oldDoc, newDoc) == oldDoc.sk # newDoc.sk

\* LogicalCollection::insert and MMFilesCollection::insert
insert(c, key, sk, v, fault) ==
  LET op == TRI_VOC_DOCUMENT_OPERATION_INSERT
      rev == TRI_HybridLogicalClock(c)
      doc == DocumentOf(key, rev, sk, v)
      c1 == insertRevision([c EXCEPT !.hlc = rev], rev, doc, 0, TRUE)
      d == insertDocument(c1, rev, doc, fault)
  IN IF fault.at = "lock"
     THEN Done(removeRevision(c1, rev, FALSE), op, TRI_ERROR_LOCK_TIMEOUT,
               key, 0, rev, FALSE)
     ELSE IF d.res # TRI_ERROR_NO_ERROR
     THEN Indexed(Done(revert(d.c, op, NoDocument, doc, d.indexed), op,
                       d.res, key, 0, rev, FALSE),
                  d.indexed)
     ELSE Indexed(Done(d.c, op, d.res, key, 0, rev, FALSE), TRUE)

\* The value of the shard key attribute differs between two documents
Differs(oldDoc, newDoc) == oldDoc.sk # newDoc.sk

\* What update and replace do once the new document is built
modify(c, op, oldDoc, newDoc, recovery, fault) ==
  LET c1 == insertRevision(c, newDoc.rev, newDoc, 0, TRUE)
      u == updateDocument(c1, oldDoc.rev, oldDoc, newDoc.rev, newDoc, fault)
      d == IF u.res # TRI_ERROR_NO_ERROR
           THEN revert(u.c, op, oldDoc, newDoc, u.indexed)
           ELSE u.c
  IN [d EXCEPT !.last =
        [DocumentCall(op, u.res, newDoc.key, oldDoc.rev, newDoc.rev,
                      Differs(oldDoc, newDoc))
           EXCEPT !.recovery = recovery, !.indexed = u.indexed]]

\* LogicalCollection::update and MMFilesCollection::update; with a recovery
\* marker the new document is the one of the marker
update(c, key, sk, v, expectedRev, recovery, fault) ==
  LET op == TRI_VOC_DOCUMENT_OPERATION_UPDATE
      rev == TRI_HybridLogicalClock(c)
      c0 == [c EXCEPT !.hlc = rev]
      previous == lookupDocument(c0, key)
      oldDoc == previous.doc
      newDoc == IF recovery THEN DocumentOf(key, rev, sk, v)
                ELSE mergeObjectsForUpdate(oldDoc, sk, v, rev)
  IN IF previous.res # TRI_ERROR_NO_ERROR
     THEN Done(c0, op, previous.res, key, 0, 0, FALSE)
     ELSE IF checkRevision(expectedRev, oldDoc.rev) # TRI_ERROR_NO_ERROR
     THEN Done(c0, op, TRI_ERROR_ARANGO_CONFLICT, key, oldDoc.rev, 0, FALSE)
     ELSE IF sk = NoValue /\ v = NoValue
     THEN Done(c0, op, TRI_ERROR_NO_ERROR, key, oldDoc.rev, 0, FALSE)
     ELSE IF /\ ~recovery
             /\ c.role = ROLE_DBSERVER
             /\ shardKeysChanged(oldDoc, newDoc)
     THEN Done(c0, op, TRI_ERROR_CLUSTER_MUST_NOT_CHANGE_SHARDING_ATTRIBUTES,
               key, oldDoc.rev, rev, Differs(oldDoc, newDoc))
     ELSE modify(c0, op, oldDoc, newDoc, recovery, fault)

replaceUnchecked(c, key, sk, v, expectedRev, fault) ==
  LET op == TRI_VOC_DOCUMENT_OPERATION_REPLACE
      rev == TRI_HybridLogicalClock(c)
      c0 == [c EXCEPT !.hlc = rev]
      previous == lookupDocument(c0, key)
      oldDoc == previous.doc
      newDoc == DocumentOf(key, rev, sk, v)
  IN IF previous.res # TRI_ERROR_NO_ERROR
     THEN Done(c0, op, previous.res, key, 0, 0, FALSE)
     ELSE IF checkRevision(expectedRev, oldDoc.rev) # TRI_ERROR_NO_ERROR
     THEN Done(c0, op, TRI_ERROR_ARANGO_CONFLICT, key, oldDoc.rev, 0, FALSE)
     ELSE modify(c0, op, oldDoc, newDoc, FALSE, fault)

\* LogicalCollection::replace and MMFilesCollection::replace
replace(c, key, sk, v, expectedRev, fault) ==
  LET op == TRI_VOC_DOCUMENT_OPERATION_REPLACE
      rev == TRI_HybridLogicalClock(c)
      c0 == [c EXCEPT !.hlc = rev]
      previous == lookupDocument(c0, key)
      oldDoc == previous.doc
      newDoc == DocumentOf(key, rev, sk, v)
  IN IF previous.res # TRI_ERROR_NO_ERROR
     THEN Done(c0, op, previous.res, key, 0, 0, FALSE)
     ELSE IF checkRevision(expectedRev, oldDoc.rev) # TRI_ERROR_NO_ERROR
     THEN Done(c0, op, TRI_ERROR_ARANGO_CONFLICT, key, oldDoc.rev, 0, FALSE)
     ELSE IF c.role = ROLE_DBSERVER /\ shardKeysChanged(oldDoc, newDoc)
     THEN Done(c0, op, TRI_ERROR_CLUSTER_MUST_NOT_CHANGE_SHARDING_ATTRIBUTES,
               key, oldDoc.rev, rev, Differs(oldDoc, newDoc))
     ELSE modify(c0, op, oldDoc, newDoc, FALSE, fault)

\* The try block of MMFilesCollection::remove
removeDocument(c, oldDoc, revisionId, fault) ==
  LET d == deleteSecondaryIndexes(c, oldDoc.rev, oldDoc,
                                  FailingAt(fault, "deleteSecondary"))
      p == deletePrimaryIndex(d.c, oldDoc.rev, oldDoc,
                              fault.at = "deletePrimary")
  IN IF d.res # TRI_ERROR_NO_ERROR
     THEN Worked(insertSecondaryIndexes(d.c, oldDoc.rev, oldDoc,
                                        0, FALSE).c,
                 d.res, FALSE)
     ELSE IF p.res # TRI_ERROR_NO_ERROR
     THEN Worked(insertSecondaryIndexes(p.c, oldDoc.rev, oldDoc,
                                        0, FALSE).c,
                 p.res, FALSE)
     ELSE addOperation(removeRevision(p.c, oldDoc.rev, TRUE),
                       MarkerOf(TRI_DF_MARKER_VPACK_REMOVE,
                                DocumentOf(oldDoc.key, revisionId,
                                           NoValue, NoValue)),
                       fault.at = "addOperation")

\* LogicalCollection::remove and MMFilesCollection::remove
remove(c, key, expectedRev, fault) ==
  LET op == TRI_VOC_DOCUMENT_OPERATION_REMOVE
      rev == TRI_HybridLogicalClock(c)
      c0 == [c EXCEPT !.hlc = rev]
      previous == lookupDocument(c0, key)
      oldDoc == previous.doc
      r == removeDocument(c0, oldDoc, rev, fault)
  IN IF previous.res # TRI_ERROR_NO_ERROR
     THEN Done(c0, op, previous.res, key, 0, 0, FALSE)
     ELSE IF checkRevision(expectedRev, oldDoc.rev) # TRI_ERROR_NO_ERROR
     THEN Done(c0, op, TRI_ERROR_ARANGO_CONFLICT, key, oldDoc.rev, 0, FALSE)
     ELSE IF r.res # TRI_ERROR_NO_ERROR
     THEN Indexed(Done(revert(r.c, op, oldDoc, NoDocument, r.indexed), op,
                       r.res, key, oldDoc.rev, 0, FALSE),
                  r.indexed)
     ELSE Indexed(Done(r.c, op, r.res, key, oldDoc.rev, 0, FALSE), TRUE)

(* Opening a collection: the replay of the markers of its files *)

\* The markers of the files of a vector in the order of TRI_IterateDatafile,
\* each with the fid of its file
RECURSIVE MarkersOf(_)
MarkersOf(files) ==
  IF files = <<>> THEN <<>>
  ELSE [k \in DOMAIN files[1].markers |->
          [fid |-> files[1].fid, marker |-> files[1].markers[k]]]
         \o MarkersOf(Tail(files))

iterateJournalsFirst(c) ==
  MarkersOf(c.journals) \o MarkersOf(c.compactors) \o MarkersOf(c.datafiles)

\* iterateDatafiles: _datafiles, then _compactors, then _journals
iterateDatafiles(c) ==
  MarkersOf(c.datafiles) \o MarkersOf(c.compactors) \o MarkersOf(c.journals)

MarkDeadNot(c, old) == c

\* dfi->numberAlive--, dfi->numberDead++ for the file of the old revision
MarkDead(c, old) ==
  IF old.dataptr # NoDocument /\ old.fid \in Fids
  THEN [c EXCEPT !.stats[old.fid].numberAlive = @ - 1,
                 !.stats[old.fid].numberDead = @ + 1]
  ELSE c

\* OpenIteratorHandleDocumentMarker; fails: insertKey of the primary index
\* returns an error
OpenIteratorHandleDocumentMarker(c, marker, fid, fails) ==
  LET doc == marker.doc
      found == c.primary[doc.key]
      old == c.cache[found]
      c1 == insertRevision(c, doc.rev, doc, fid, FALSE)
      u1 == [c EXCEPT !.primary[doc.key] = doc.rev]
      u2 == insertRevision(removeRevision(u1, found, FALSE),
                           doc.rev, doc, fid, FALSE)
      u3 == MarkDead(u2, old)
  IN IF found = 0
     THEN IF fails
          THEN Result(removeRevision(c1, doc.rev, FALSE),
                      TRI_ERROR_OUT_OF_MEMORY)
          ELSE Result([c1 EXCEPT !.primary[doc.key] = doc.rev,
                                 !.stats[fid].numberAlive = @ + 1],
                      TRI_ERROR_NO_ERROR)
     ELSE Result([u3 EXCEPT !.stats[fid].numberAlive = @ + 1],
                 TRI_ERROR_NO_ERROR)

\* OpenIteratorHandleDeletionMarker
OpenIteratorHandleDeletionMarker(c, marker, fid) ==
  LET found == c.primary[marker.doc.key]
      old == c.cache[found]
      c1 == MarkDead(c, old)
      c2 == [c1 EXCEPT !.stats[fid].numberDeletions = @ + 1,
                       !.primary[marker.doc.key] = 0]
  IN IF found = 0
     THEN Result([c EXCEPT !.stats[fid].numberDeletions = @ + 1],
                 TRI_ERROR_NO_ERROR)
     ELSE Result(removeRevision(c2, found, TRUE), TRI_ERROR_NO_ERROR)

\* OpenIterator
OpenIterator(c, entry, fails) ==
  IF entry.marker.type = TRI_DF_MARKER_VPACK_DOCUMENT
  THEN OpenIteratorHandleDocumentMarker(c, entry.marker, entry.fid, fails)
  ELSE OpenIteratorHandleDeletionMarker(c, entry.marker, entry.fid)

\* The iteration from marker k on; it stops at the marker whose callback
\* returns false, and c.last.failed is the number of that marker
RECURSIVE IterateFrom(_, _, _, _)
IterateFrom(c, entries, k, failAt) ==
  IF k > Len(entries) THEN c
  ELSE LET r == OpenIterator(c, entries[k], k = failAt)
       IN IF r.res # TRI_ERROR_NO_ERROR
          THEN [r.c EXCEPT !.last.failed = k]
          ELSE IterateFrom(r.c, entries, k + 1, failAt)

\* iterateMarkersOnLoad: what iterateDatafiles returns is not looked at
iterateMarkersOnLoad(c, failAt) ==
  IterateFrom(Returned(c, "open", TRI_ERROR_NO_ERROR),
              iterateDatafiles(c), 1, failAt)

\* fillIndexes: the secondary indexes get the documents of the primary index
fillIndexes(c) ==
  [c EXCEPT !.secondary =
     [i \in 1..NumSecondary |->
        {IndexEntry(i, c.primary[k], c.cache[c.primary[k]].dataptr) :
           k \in {x \in Keys : c.primary[x] # 0}}]]

\* The collection object of a process that has just started: the files are
\* those the process before it left
Restarted(c) ==
  [CollectionOf(c.role) EXCEPT !.journals = c.journals,
                               !.datafiles = c.datafiles,
                               !.compactors = c.compactors,
                               !.hlc = c.hlc, !.tick = c.tick]

\* LogicalCollection::open
open(c, failAt) == fillIndexes(iterateMarkersOnLoad(c, failAt))

\* The collector: it takes the oldest marker of the write-ahead log to the
\* place reserveJournalSpace has returned, and the cache then points to the
\* journal (updateRevisionConditional)
collect(c) ==
  IF c.last.res # TRI_ERROR_NO_ERROR \/ c.wal = <<>> THEN c
  ELSE LET marker == Head(c.wal)
           rev == marker.doc.rev
           moved == /\ marker.type = TRI_DF_MARKER_VPACK_DOCUMENT
                    /\ c.cache[rev] # NoPosition
                    /\ c.cache[rev].wal
       IN [c EXCEPT !.journals[1].markers = Append(@, marker),
                    !.wal = Tail(@),
                    !.cache[rev] = IF moved
                                   THEN PositionOf(@.dataptr,
                                                   c.journals[1].fid, FALSE)
                                   ELSE @]

-----------------------------------------------------------------------------
(* The steps of the storage engine *)

Idle == UNCHANGED <<agency, transient, sup, now, alive, hlog>>

ReserveJournalSpace(env) ==
  /\ (coll.journals = <<>> \/ env.reserve = "full") => coll.tick < MaxFiles
  /\ env.reserve = "full" => coll.journals # <<>>
  /\ coll' = collect(reserveJournalSpace(coll, env))
  /\ Idle

RotateActiveJournal(sealed, renamed) ==
  /\ coll' = rotateActiveJournal(coll, sealed, renamed)
  /\ Idle

SyncActiveJournal(ok) ==
  /\ coll' = syncActiveJournal(coll, ok)
  /\ Idle

\* The compactor thread creates a compactor for a datafile, with its fid
CreateCompactor(i, created) ==
  /\ coll.tick < MaxFiles
  /\ coll.compactors = <<>>
  /\ i \in DOMAIN coll.datafiles
  /\ coll' = createCompactor(coll, coll.datafiles[i].fid, created)
  /\ Idle

CloseCompactor(id, sealed) ==
  /\ coll' = closeCompactor(coll, id, sealed)
  /\ Idle

ReplaceDatafileWithCompactor(fid) ==
  /\ coll.compactors # <<>>
  /\ coll' = replaceDatafileWithCompactor(coll, fid, coll.compactors[1])
  /\ Idle

RemoveCompactor(id) ==
  /\ coll' = removeCompactor(coll, id)
  /\ Idle

RemoveDatafile(id) ==
  /\ coll' = removeDatafile(coll, id)
  /\ Idle

Close ==
  /\ coll' = close(coll)
  /\ Idle

DoInsert(key, sk, v, fault) ==
  /\ coll.hlc < MaxRevision
  /\ coll' = insert(coll, key, sk, v, fault)
  /\ Idle

DoUpdate(key, sk, v, expectedRev, recovery, fault) ==
  /\ coll.hlc < MaxRevision
  /\ recovery => sk # NoValue /\ v # NoValue
  /\ coll' = update(coll, key, sk, v, expectedRev, recovery, fault)
  /\ Idle

DoReplace(key, sk, v, expectedRev, fault) ==
  /\ coll.hlc < MaxRevision
  /\ coll' = replace(coll, key, sk, v, expectedRev, fault)
  /\ Idle

DoRemove(key, expectedRev, fault) ==
  /\ coll.hlc < MaxRevision
  /\ coll' = remove(coll, key, expectedRev, fault)
  /\ Idle

\* The process ends once the collector has emptied the write-ahead log, and
\* the next process opens the collection from its files
OpenCollection(failAt) ==
  /\ coll.wal = <<>>
  /\ failAt \in 0..Len(iterateDatafiles(coll))
  /\ coll' = open(Restarted(coll), failAt)
  /\ Idle

-----------------------------------------------------------------------------
(* Specifications of the storage engine *)

\* No agency and no supervisor
NoSupervision ==
  /\ agency = AgencyOf({}, {}, EmptyMap, EmptyMap)
  /\ transient = <<>>
  /\ sup = <<>>
  /\ now = 0
  /\ alive = [srv \in AllServers |-> FALSE]
  /\ hlog = NoTick

\* The datafile set of a collection whose documents nobody writes
InitFiles ==
  /\ NoSupervision
  /\ coll = CollectionOf(ROLE_DBSERVER)

NextFiles ==
  \/ \E env \in ReserveEnvs : ReserveJournalSpace(env)
  \/ \E sealed, renamed \in BOOLEAN : RotateActiveJournal(sealed, renamed)
  \/ \E ok \in BOOLEAN : SyncActiveJournal(ok)
  \/ \E i \in 1..MaxFiles : \E created \in BOOLEAN : CreateCompactor(i, created)
  \/ \E id \in Fids : \E sealed \in BOOLEAN : CloseCompactor(id, sealed)
  \/ \E fid \in Fids : ReplaceDatafileWithCompactor(fid)
  \/ \E id \in Fids : RemoveCompactor(id)
  \/ \E id \in Fids : RemoveDatafile(id)
  \/ Close

SpecFiles == InitFiles /\ [][NextFiles]_vars

\* The documents of a collection, on a DB server or on a single server
InitDocuments ==
  /\ NoSupervision
  /\ coll \in {CollectionOf(role) : role \in {ROLE_DBSERVER, ROLE_SINGLE}}

\* The collector finds room in the journal, or the journal full
CollectEnvs == {env \in ReserveEnvs : env.create /\ env.seal /\ env.rename
                                        /\ env.again
                                        /\ env.reserve # "error"}

ExpectedRevs == {0, 1}     \* no _rev in the slice, or the first revision
Patches == Values \cup {NoValue}

NextDocuments ==
  \/ \E key \in Keys : \E sk, v \in Values : \E fault \in FaultsOf("insert") :
       DoInsert(key, sk, v, fault)
  \/ \E key \in Keys : \E sk, v \in Patches : \E expectedRev \in ExpectedRevs :
       \E recovery \in BOOLEAN : \E fault \in FaultsOf("update") :
         DoUpdate(key, sk, v, expectedRev, recovery, fault)
  \/ \E key \in Keys : \E sk, v \in Values : \E expectedRev \in ExpectedRevs :
       \E fault \in FaultsOf("update") : DoReplace(key, sk, v, expectedRev, fault)
  \/ \E key \in Keys : \E expectedRev \in ExpectedRevs :
       \E fault \in FaultsOf("remove") : DoRemove(key, expectedRev, fault)
  \/ \E env \in CollectEnvs : coll.wal # <<>> /\ ReserveJournalSpace(env)
  \/ OpenCollection(0)     \* a restart whose replay meets no error

SpecDocuments == InitDocuments /\ [][NextDocuments]_vars

\* A collection that is opened from files with any markers: the k-th marker
\* of the files has revision k
MarkerChoices ==
  {MarkerOf(TRI_DF_MARKER_VPACK_DOCUMENT, DocumentOf(key, 0, 0, 0)) :
     key \in Keys}
    \cup {MarkerOf(TRI_DF_MARKER_VPACK_REMOVE,
                   DocumentOf(key, 0, NoValue, NoValue)) : key \in Keys}

MarkerSequences ==
  UNION {[1..n -> MarkerChoices] : n \in 0..MaxMarkers}

Stamped(markers, from) ==
  [k \in DOMAIN markers |-> [markers[k] EXCEPT !.doc.rev = from + k]]

\* A sealed datafile with the first cut markers and a journal with the rest
FilesOf(markers, cut) ==
  [CollectionOf(ROLE_DBSERVER) EXCEPT
     !.datafiles = <<[DatafileOf(1, 1, FALSE) EXCEPT
                        !.sealed = TRUE,
                        !.markers = Stamped(SubSeq(markers, 1, cut), 0)]>>,
     !.journals = <<[DatafileOf(2, 2, FALSE) EXCEPT
                       !.markers =
                         Stamped(SubSeq(markers, cut + 1, Len(markers)),
                                 cut)]>>,
     !.tick = 2, !.hlc = Len(markers)]

InitLoad ==
  /\ NoSupervision
  /\ coll \in UNION {{FilesOf(markers, cut) : cut \in 0..Len(markers)} :
                       markers \in MarkerSequences}

NextLoad == \E failAt \in 0..MaxMarkers : OpenCollection(failAt)

SpecLoad == InitLoad /\ [][NextLoad]_vars


-----------------------------------------------------------------------------
(* The properties of the datafile set and of the replay on open *)

\* C15: whatever file operations ran before, the collection never has more
\* than one journal, and when reserveJournalSpace returns without an error
\* the journal vector holds exactly one file, the one it returned.
C15_AtMostOneJournal ==
  /\ Len(coll.journals) <= 1
  /\ (/\ coll.last.op = "reserveJournalSpace"
      /\ coll.last.res = TRI_ERROR_NO_ERROR)
       => /\ Len(coll.journals) = 1
          /\ coll.journals[1].id = coll.last.datafile

\* A reservation succeeded after a rotation, next to a compactor
C15_Witness ==
  /\ coll.last.op = "reserveJournalSpace"
  /\ coll.last.res = TRI_ERROR_NO_ERROR
  /\ coll.datafiles # <<>>
  /\ coll.compactors # <<>>
  /\ Len(coll.journals) = 1

\* The keys of the primary index
PrimaryKeys(c) == {k \in Keys : c.primary[k] # 0}

\* C16: when the collection is opened and every marker is replayed, the
\* primary index is the one the operations before the restart had built.
C16_ReplayRebuildsPrimaryIndex ==
  [][(/\ coll'.last.op = "open"
      /\ coll'.last.failed = 0
      /\ coll' # coll)
       => coll'.primary = coll.primary]_vars

\* A collection opened from a datafile and a journal, with a remove marker
\* among the markers and a document left
C16_Witness ==
  /\ coll.last.op = "open"
  /\ coll.last.failed = 0
  /\ coll.datafiles # <<>>
  /\ coll.journals # <<>>
  /\ PrimaryKeys(coll) # {}
  /\ \E k \in DOMAIN iterateDatafiles(coll) :
       iterateDatafiles(coll)[k].marker.type = TRI_DF_MARKER_VPACK_REMOVE

\* The markers the last open has replayed
Replayed(c) ==
  IF c.last.failed = 0 THEN iterateDatafiles(c)
  ELSE SubSeq(iterateDatafiles(c), 1, c.last.failed)

\* The number of remove markers of file fid among the replayed markers
RemoveMarkers(c, fid) ==
  Cardinality({k \in DOMAIN Replayed(c) :
                 /\ Replayed(c)[k].fid = fid
                 /\ Replayed(c)[k].marker.type = TRI_DF_MARKER_VPACK_REMOVE})

RECURSIVE SumAlive(_, _)
SumAlive(c, fids) ==
  IF fids = {} THEN 0
  ELSE LET f == CHOOSE x \in fids : TRUE
       IN c.stats[f].numberAlive + SumAlive(c, fids \ {f})

\* The fids of the files of the collection
FidsOf(c) ==
  {f.fid : f \in {c.datafiles[k] : k \in DOMAIN c.datafiles}
             \cup {c.compactors[k] : k \in DOMAIN c.compactors}
             \cup {c.journals[k] : k \in DOMAIN c.journals}}

\* The markers document a, document a, remove a
ScenarioS4(c) ==
  LET entries == iterateDatafiles(c)
  IN /\ Len(entries) = 3
     /\ c.last.failed = 0
     /\ entries[1].marker.type = TRI_DF_MARKER_VPACK_DOCUMENT
     /\ entries[2].marker.type = TRI_DF_MARKER_VPACK_DOCUMENT
     /\ entries[3].marker.type = TRI_DF_MARKER_VPACK_REMOVE
     /\ \A k \in 1..3 : entries[k].marker.doc.key = "a"

\* C17: after the replay of open, the primary index has as many entries as
\* the files count alive documents, every cached revision is a revision of
\* the primary index and lies in a file of the collection, each file counts
\* the remove markers replayed from it, and document, document, remove of
\* one key leave the index and the cache empty with one deletion counted.
C17_ReplayStatistics ==
  coll.last.op = "open" =>
    /\ Cardinality(PrimaryKeys(coll)) = SumAlive(coll, Fids)
    /\ \A r \in Revisions :
         coll.cache[r] # NoPosition =>
           /\ \E k \in Keys : coll.primary[k] = r
           /\ ~coll.cache[r].wal
           /\ coll.cache[r].fid \in FidsOf(coll)
    /\ \A f \in Fids : coll.stats[f].numberDeletions = RemoveMarkers(coll, f)
    /\ ScenarioS4(coll) =>
         /\ PrimaryKeys(coll) = {}
         /\ \A r \in Revisions : coll.cache[r] = NoPosition
         /\ SumAlive(coll, Fids) = 0
         /\ \E f \in Fids : coll.stats[f].numberDeletions = 1

\* The collection opened from the markers of scenario S4, spread over a
\* datafile and a journal
C17_Witness ==
  /\ coll.last.op = "open"
  /\ ScenarioS4(coll)
  /\ coll.datafiles # <<>>
  /\ coll.datafiles[1].markers # <<>>
  /\ coll.journals[1].markers # <<>>

\* C23: replaceDatafileWithCompactor puts the compactor into _datafiles at
\* the position of the file with the fid of the old file and takes it out of
\* _compactors; _datafiles keeps its length and its other files in their
\* order, and _journals stays.  Without a datafile of that fid it returns an
\* error and the three vectors stay as they are.
C23_CompactorTakesThePlace ==
  [][coll'.last.op = "replaceDatafileWithCompactor" =>
       LET fid == coll'.last.datafile
           held == {i \in DOMAIN coll.datafiles : coll.datafiles[i].fid = fid}
           compactor == coll.compactors[1]
       IN /\ coll'.journals = coll.journals
          /\ IF held = {}
             THEN /\ coll'.last.res # TRI_ERROR_NO_ERROR
                  /\ coll'.datafiles = coll.datafiles
                  /\ coll'.compactors = coll.compactors
             ELSE /\ coll'.last.res = TRI_ERROR_NO_ERROR
                  /\ Len(coll'.datafiles) = Len(coll.datafiles)
                  /\ \E i \in held :
                       /\ \A j \in held : i <= j
                       /\ coll'.datafiles[i] = compactor
                       /\ \A j \in DOMAIN coll.datafiles \ {i} :
                            coll'.datafiles[j] = coll.datafiles[j]
                  /\ Len(coll'.compactors) = Len(coll.compactors) - 1
                  /\ \A k \in DOMAIN coll'.compactors :
                       coll'.compactors[k] # compactor]_vars

\* The compactor has taken the place of the second of two datafiles
C23_Witness ==
  /\ coll.last.op = "replaceDatafileWithCompactor"
  /\ coll.last.res = TRI_ERROR_NO_ERROR
  /\ Len(coll.datafiles) = 2
  /\ coll.datafiles[2].compactor
  /\ coll.datafiles[2].fid = coll.last.datafile
  /\ coll.compactors = <<>>

-----------------------------------------------------------------------------
(* The properties of the write operations *)

WriteOperations ==
  {TRI_VOC_DOCUMENT_OPERATION_INSERT, TRI_VOC_DOCUMENT_OPERATION_UPDATE,
   TRI_VOC_DOCUMENT_OPERATION_REPLACE, TRI_VOC_DOCUMENT_OPERATION_REMOVE}

\* The documents of the revisions cache, whatever their place
CachedDocuments(c) == [r \in Revisions |-> c.cache[r].dataptr]

\* A write operation has just returned
WriteReturned == coll'.hlc # coll.hlc /\ coll'.last.op \in WriteOperations

\* Indexes and cached documents are those of before the step
SameDocuments ==
  /\ coll'.primary = coll.primary
  /\ coll'.secondary = coll.secondary
  /\ CachedDocuments(coll') = CachedDocuments(coll)

C19_ShardKeyChangeRefused ==
  [][(/\ WriteReturned
      /\ coll'.last.op \in {TRI_VOC_DOCUMENT_OPERATION_UPDATE,
                            TRI_VOC_DOCUMENT_OPERATION_REPLACE}
      /\ coll'.last.sharding)
       => /\ coll'.last.res =
               TRI_ERROR_CLUSTER_MUST_NOT_CHANGE_SHARDING_ATTRIBUTES
          /\ SameDocuments]_vars

\* C19, amended: on a DB server every replace, and every update that is not
\* the replay of a recovery marker, whose new document differs from the old
\* one in the shard key returns
\* TRI_ERROR_CLUSTER_MUST_NOT_CHANGE_SHARDING_ATTRIBUTES and leaves the
\* indexes and the revisions cache as they were; and only such a call
\* returns this error.
C19_ShardKeyChangeRefusedOnDBServer ==
  [][(/\ WriteReturned
      /\ coll'.last.op \in {TRI_VOC_DOCUMENT_OPERATION_UPDATE,
                            TRI_VOC_DOCUMENT_OPERATION_REPLACE})
       => /\ (/\ coll'.last.sharding
              /\ coll.role = ROLE_DBSERVER
              /\ ~coll'.last.recovery)
               => /\ coll'.last.res =
                       TRI_ERROR_CLUSTER_MUST_NOT_CHANGE_SHARDING_ATTRIBUTES
                  /\ SameDocuments
          /\ coll'.last.res =
               TRI_ERROR_CLUSTER_MUST_NOT_CHANGE_SHARDING_ATTRIBUTES
               => /\ coll'.last.sharding
                  /\ coll.role = ROLE_DBSERVER
                  /\ ~coll'.last.recovery]_vars

\* A replace on a DB server was refused for the shard key
C19_Witness ==
  /\ coll.last.op = TRI_VOC_DOCUMENT_OPERATION_REPLACE
  /\ coll.last.res = TRI_ERROR_CLUSTER_MUST_NOT_CHANGE_SHARDING_ATTRIBUTES
  /\ coll.last.sharding
  /\ coll.role = ROLE_DBSERVER

-----------------------------------------------------------------------------
(* The iteration over the markers of a tick range (replication) *)

MaxTicks == 3     \* the markers of the files have the ticks 1..MaxTicks

TRI_DF_MARKER_BLANK == "blank"
TRI_DF_MARKER_PROLOGUE == "prologue"     \* a marker that carries no data

\* A marker with its tick
TickMarkerOf(type, tick) == [type |-> type, tick |-> tick]

RECURSIVE MaxTickOf(_, _)
MaxTickOf(markers, types) ==
  IF markers = <<>> THEN 0
  ELSE LET rest == MaxTickOf(Tail(markers), types)
           m == Head(markers)
       IN IF m.type \in types /\ m.tick > rest THEN m.tick ELSE rest

\* datafile->_dataMin as OpenIterator leaves it: the tick of the first
\* document marker of the file, 0 without one
RECURSIVE dataMinOf(_)
dataMinOf(markers) ==
  IF markers = <<>> THEN 0
  ELSE IF Head(markers).type = TRI_DF_MARKER_VPACK_DOCUMENT
  THEN Head(markers).tick
  ELSE dataMinOf(Tail(markers))

\* datafile->_dataMax: the greatest tick of a document marker of the file
dataMaxOf(markers) == MaxTickOf(markers, {TRI_DF_MARKER_VPACK_DOCUMENT})

\* datafile->_tickMax: the greatest tick of a marker of the file
tickMaxOf(markers) ==
  MaxTickOf(markers, {TRI_DF_MARKER_VPACK_DOCUMENT, TRI_DF_MARKER_VPACK_REMOVE,
                      TRI_DF_MARKER_BLANK, TRI_DF_MARKER_PROLOGUE})

DatafileDescription(datafile, isJournal) ==
  [data |-> datafile, dataMin |-> dataMinOf(datafile.markers),
   dataMax |-> dataMaxOf(datafile.markers),
   tickMax |-> tickMaxOf(datafile.markers), isJournal |-> isJournal]

\* The lambda apply of datafilesInRange: the file is picked
InRange(entry, dataMin, dataMax) ==
  /\ entry.dataMin # 0
  /\ entry.dataMax # 0
  /\ ~(dataMax < entry.dataMin)
  /\ ~(dataMin > entry.dataMax)

\* datafilesInRange: _datafiles, then _journals
datafilesInRange(c, dataMin, dataMax) ==
  LET all == [k \in DOMAIN c.datafiles |->
                DatafileDescription(c.datafiles[k], FALSE)]
               \o [k \in DOMAIN c.journals |->
                     DatafileDescription(c.journals[k], TRUE)]
  IN SelectSeq(all, LAMBDA entry : InRange(entry, dataMin, dataMax))

FetchedNever(foundTick, dataMax, tickMax, isLast) == FALSE

\* "fetched the last available marker" after the callback
Fetched(foundTick, dataMax, tickMax, isLast) ==
  foundTick >= dataMax \/ (foundTick >= tickMax /\ isLast)

\* What applyForTickRange returns, with the markers the callback has got,
\* the tick at which it returned false (0: never) and whether the file of
\* that marker was the last one picked
RangeResult(hasMore, calls, abortedAt, abortedInLast, abortedTickMax) ==
  [hasMore |-> hasMore, calls |-> calls, abortedAt |-> abortedAt,
   abortedInLast |-> abortedInLast, abortedTickMax |-> abortedTickMax]

\* The loops of applyForTickRange from marker k of file i on; the callback
\* returns false at its call number abortAt
RECURSIVE ScanFrom(_, _, _, _, _, _, _)
ScanFrom(datafiles, i, k, dataMin, dataMax, abortAt, calls) ==
  IF i > Len(datafiles) THEN RangeResult(FALSE, calls, 0, FALSE, 0)
  ELSE IF k > Len(datafiles[i].data.markers)
  THEN ScanFrom(datafiles, i + 1, 1, dataMin, dataMax, abortAt, calls)
  ELSE
    LET e == datafiles[i]
        marker == e.data.markers[k]
        foundTick == marker.tick
        isLast == i = Len(datafiles)
        next == ScanFrom(datafiles, i, k + 1, dataMin, dataMax, abortAt,
                         calls)
        called == Append(calls, marker)
        doAbort == Len(called) = abortAt
        aborted == IF doAbort THEN foundTick ELSE 0
    IN IF marker.type = TRI_DF_MARKER_BLANK THEN next
       ELSE IF foundTick <= dataMin THEN next
       ELSE IF foundTick > dataMax
       THEN RangeResult(FALSE, calls, 0, FALSE, 0)
       ELSE IF marker.type \notin {TRI_DF_MARKER_VPACK_DOCUMENT,
                                   TRI_DF_MARKER_VPACK_REMOVE}
       THEN IF foundTick >= dataMax \/ (foundTick > e.tickMax /\ isLast)
            THEN RangeResult(FALSE, calls, 0, FALSE, 0)
            ELSE next
       ELSE IF Fetched(foundTick, dataMax, e.tickMax, isLast)
       THEN RangeResult(FALSE, called, aborted, isLast, e.tickMax)
       ELSE IF doAbort
       THEN RangeResult(TRUE, called, aborted, isLast, e.tickMax)
       ELSE ScanFrom(datafiles, i, k + 1, dataMin, dataMax, abortAt, called)

\* MMFilesCollection::applyForTickRange
applyForTickRange(c, dataMin, dataMax, abortAt) ==
  [c EXCEPT !.last =
     [op |-> "applyForTickRange", dataMin |-> dataMin, dataMax |-> dataMax,
      res |-> ScanFrom(datafilesInRange(c, dataMin, dataMax), 1, 1,
                       dataMin, dataMax, abortAt, <<>>)]]

ApplyForTickRange(dataMin, dataMax, abortAt) ==
  /\ dataMin <= dataMax
  /\ coll' = applyForTickRange(coll, dataMin, dataMax, abortAt)
  /\ Idle

\* The types of the markers of the files, in the order of their ticks
TickMarkerTypes ==
  {TRI_DF_MARKER_VPACK_DOCUMENT, TRI_DF_MARKER_VPACK_REMOVE,
   TRI_DF_MARKER_BLANK, TRI_DF_MARKER_PROLOGUE}

TickMarkerSequences ==
  UNION {[1..n -> TickMarkerTypes] : n \in 1..MaxTicks}

\* Two sealed datafiles and a journal that hold the markers with ascending
\* ticks: the first cut1 in the first datafile, those up to cut2 in the
\* second, the rest in the journal
TickFilesOf(types, cut1, cut2) ==
  LET markers == [k \in DOMAIN types |-> TickMarkerOf(types[k], k)]
  IN [CollectionOf(ROLE_SINGLE) EXCEPT
        !.datafiles =
           <<[DatafileOf(1, 1, FALSE) EXCEPT
                !.sealed = TRUE, !.markers = SubSeq(markers, 1, cut1)],
             [DatafileOf(2, 2, FALSE) EXCEPT
                !.sealed = TRUE, !.markers = SubSeq(markers, cut1 + 1, cut2)]>>,
        !.journals =
           <<[DatafileOf(3, 3, FALSE) EXCEPT
                !.markers = SubSeq(markers, cut2 + 1, Len(markers))]>>,
        !.tick = 3]

InitRange ==
  /\ NoSupervision
  /\ coll \in UNION {{TickFilesOf(types, cut[1], cut[2]) :
                        cut \in {x \in (0..Len(types)) \X (0..Len(types)) :
                                   x[1] <= x[2]}}
                     : types \in TickMarkerSequences}

NextRange ==
  \E dataMin, dataMax \in 0..(MaxTicks + 1) : \E abortAt \in 0..MaxTicks :
    ApplyForTickRange(dataMin, dataMax, abortAt)

SpecRange == InitRange /\ [][NextRange]_vars

-----------------------------------------------------------------------------
(* The properties of the iteration over a tick range *)

RangeReturned == coll.last.op = "applyForTickRange"

\* C21 as stated: applyForTickRange returns hasMore = true whenever the
\* callback has returned false for a marker, and hasMore = false only when
\* no callback has returned false.
C21_HasMoreWheneverAborted ==
  RangeReturned => (coll.last.res.hasMore <=> coll.last.res.abortedAt # 0)

\* C21, amended: applyForTickRange returns hasMore = true exactly when the
\* callback has returned false for a marker that is not the last one
\* available: its tick is below dataMax and, in the last file picked, below
\* the tickMax of that file.  A callback that returns false for the last
\* available marker gets hasMore = false, as does every iteration that falls
\* off the end of the files or passes dataMax.
C21_HasMoreWhenAbortedBeforeLast ==
  RangeReturned =>
    (coll.last.res.hasMore <=>
       /\ coll.last.res.abortedAt # 0
       /\ coll.last.res.abortedAt < coll.last.dataMax
       /\ ~(/\ coll.last.res.abortedInLast
            /\ coll.last.res.abortedAt >= coll.last.res.abortedTickMax))

\* The callback returned false at its second marker, with more to come
C21_Witness ==
  /\ RangeReturned
  /\ coll.last.res.hasMore
  /\ Len(coll.last.res.calls) = 2
  /\ coll.last.res.abortedAt = coll.last.res.calls[2].tick

RECURSIVE TickMarkersOf(_)
TickMarkersOf(files) ==
  IF files = <<>> THEN <<>>
  ELSE Head(files).markers \o TickMarkersOf(Tail(files))

\* The document and remove markers of the files with a tick in
\* (dataMin, dataMax], in the order of the files and of their markers
MarkersInRange(c, dataMin, dataMax) ==
  SelectSeq(TickMarkersOf(c.datafiles) \o TickMarkersOf(c.journals),
            LAMBDA m : /\ m.type \in {TRI_DF_MARKER_VPACK_DOCUMENT,
                                      TRI_DF_MARKER_VPACK_REMOVE}
                       /\ m.tick > dataMin
                       /\ m.tick <= dataMax)

\* C22: with a callback that always returns true, applyForTickRange calls
\* it exactly for the document and remove markers whose tick lies in
\* (dataMin, dataMax], in the order of the files and of their markers.
C22_CallsExactlyTheRange ==
  (RangeReturned /\ coll.last.res.abortedAt = 0)
    => coll.last.res.calls =
         MarkersInRange(coll, coll.last.dataMin, coll.last.dataMax)

-----------------------------------------------------------------------------
(* The lock of a collection: beginReadTimed, beginWriteTimed *)

DefaultTimeout == 900     \* 15.0 * 60.0 seconds
Fine == 3                 \* the clock is read at 0..Fine and DefaultTimeout later
StartBy == 1              \* no call begins after this instant
DeadlockCheckEvery == 5   \* ++iterations >= 5

TRI_ERROR_DEADLOCK == "TRI_ERROR_DEADLOCK"

\* The instants at which TRI_microtime is read
Instants == {t \in 0..(DefaultTimeout + Fine) : t % DefaultTimeout <= Fine}

Timeouts == {-1, 0, 2}     \* the timeout a caller gives

\* The thread that calls beginReadTimed / beginWriteTimed
CallerOf(pc) ==
  [pc |-> pc, write |-> FALSE, useDeadlockDetector |-> FALSE, timeout |-> 0,
   iterations |-> 0, wasBlocked |-> FALSE, end |-> 0,
   res |-> TRI_ERROR_NO_ERROR, holds |-> FALSE,
   failures |-> 0, blockedAt |-> 0, since |-> 0, consulted |-> FALSE]

\* _idxLock with the lock of another thread, the threads the deadlock
\* detector has as blocked, the clock and the caller
LockedCollectionOf(role) ==
  [role |-> role, writer |-> "", readers |-> {}, blocked |-> {}, time |-> 0,
   caller |-> CallerOf("idle"), last |-> NoCall]

Caller == "caller"
Other == "other"

\* TRY_READ_LOCKER / TRY_WRITE_LOCKER gets the lock
CanLock(c, write) ==
  IF write THEN c.writer = "" /\ c.readers = {} ELSE c.writer = ""

Locked(c, thread, write) ==
  IF write THEN [c EXCEPT !.writer = thread]
  ELSE [c EXCEPT !.readers = @ \cup {thread}]

\* The return of the call
ReturnedLock(c, res, holds) ==
  [c EXCEPT !.caller.pc = "returned", !.caller.res = res,
            !.caller.holds = holds]

\* DeadlockDetector::unsetReaderBlocked / unsetWriterBlocked
unsetBlocked(c) == [c EXCEPT !.blocked = @ \ {Caller}]

waitOrTimeoutKeepsBlocked(c) ==
  LET timeout == IF c.caller.timeout <= 0 THEN DefaultTimeout
                 ELSE c.caller.timeout
      end == IF c.caller.end = 0 THEN c.time + timeout ELSE c.caller.end
      c1 == [c EXCEPT !.caller.end = end]
  IN IF c.time > end
     THEN ReturnedLock(c1, TRI_ERROR_LOCK_TIMEOUT, FALSE)
     ELSE c1

\* The end of an iteration that did not get the lock: the end time is set
\* once, and the call returns when the clock has passed it
waitOrTimeout(c) ==
  LET timeout == IF c.caller.timeout <= 0 THEN DefaultTimeout
                 ELSE c.caller.timeout
      end == IF c.caller.end = 0 THEN c.time + timeout ELSE c.caller.end
      c1 == [c EXCEPT !.caller.end = end]
  IN IF c.time > end
     THEN ReturnedLock(IF c.caller.useDeadlockDetector THEN unsetBlocked(c1)
                       ELSE c1,
                       TRI_ERROR_LOCK_TIMEOUT, FALSE)
     ELSE c1

\* if (useDeadlockDetector) { try { ... } catch (...) { ... } }: detects is
\* the answer of the detector, throws that it throws.  setReaderBlocked /
\* setWriterBlocked has the thread as blocked unless it answers with a
\* deadlock
consultDetector(c, detects, throws) ==
  IF ~c.caller.wasBlocked
  THEN LET c1 == [c EXCEPT !.caller.wasBlocked = TRUE,
                           !.caller.consulted = TRUE]
       IN IF throws
          THEN ReturnedLock(unsetBlocked(c1), TRI_ERROR_OUT_OF_MEMORY, FALSE)
          ELSE IF detects
          THEN ReturnedLock(c1, TRI_ERROR_DEADLOCK, FALSE)
          ELSE [c1 EXCEPT !.blocked = @ \cup {Caller}]
  ELSE IF c.caller.iterations + 1 >= DeadlockCheckEvery
  THEN LET c1 == [c EXCEPT !.caller.iterations = 0,
                           !.caller.consulted = TRUE]
       IN IF throws
          THEN ReturnedLock(unsetBlocked(c1), TRI_ERROR_OUT_OF_MEMORY, FALSE)
          ELSE IF detects
          THEN ReturnedLock(unsetBlocked(c1), TRI_ERROR_DEADLOCK, FALSE)
          ELSE c1
  ELSE [c EXCEPT !.caller.iterations = @ + 1]

\* The attempt has failed: it is failure number failures (2: a later one)
\* of the call, the first was at blockedAt, and with the detector in use it
\* is number since after the last one in which the detector was asked
Failed(c) ==
  [c EXCEPT !.caller.consulted = FALSE,
            !.caller.failures = IF @ = 0 THEN 1 ELSE 2,
            !.caller.blockedAt = IF c.caller.failures = 0 THEN c.time ELSE @,
            !.caller.since = IF ~c.caller.useDeadlockDetector THEN 0
                             ELSE IF c.caller.consulted THEN 1 ELSE @ + 1]

\* One iteration of while (true) of beginReadTimed / beginWriteTimed
iteration(c, detects, throws) ==
  LET c0 == Failed(c)
      got == Locked(c0, Caller, c.caller.write)
      d == consultDetector(c0, detects, throws)
  IN IF CanLock(c, c.caller.write)
     THEN ReturnedLock(IF c.caller.useDeadlockDetector THEN unsetBlocked(got)
                       ELSE got,
                       TRI_ERROR_NO_ERROR, TRUE)
     ELSE IF ~c.caller.useDeadlockDetector THEN waitOrTimeout(c0)
     ELSE IF d.caller.pc = "returned" THEN d
     ELSE waitOrTimeout(d)

\* The call up to its loop; nolock: _makeNolockHeaders has the collection
beginTimed(c, write, useDeadlockDetector, timeout, nolock) ==
  LET caller == [CallerOf("loop") EXCEPT
                   !.write = write,
                   !.useDeadlockDetector = useDeadlockDetector,
                   !.timeout = timeout]
  IN IF nolock
     THEN ReturnedLock([c EXCEPT !.caller = caller], TRI_ERROR_NO_ERROR, FALSE)
     ELSE [c EXCEPT !.caller = caller]

\* endRead / endWrite of the caller that holds the lock
endTimed(c) ==
  [c EXCEPT !.caller = [CallerOf("idle") EXCEPT !.res = c.caller.res],
            !.writer = IF @ = Caller THEN "" ELSE @,
            !.readers = @ \ {Caller}]

BeginTimed(write, useDeadlockDetector, timeout, nolock) ==
  /\ coll.caller.pc = "idle"
  /\ coll.time <= StartBy
  /\ coll' = beginTimed(coll, write, useDeadlockDetector, timeout, nolock)
  /\ Idle

Iteration(detects, throws) ==
  /\ coll.caller.pc = "loop"
  /\ (detects \/ throws) =>
       ~CanLock(coll, coll.caller.write) /\ coll.caller.useDeadlockDetector
  /\ coll' = iteration(coll, detects, throws)
  /\ Idle

\* The caller goes on after the call and gives back the lock it holds
EndTimed ==
  /\ coll.caller.pc = "returned"
  /\ coll' = endTimed(coll)
  /\ Idle

\* Another thread takes or gives back the lock
OtherLocks(write) ==
  /\ coll.writer # Other
  /\ Other \notin coll.readers
  /\ CanLock(coll, write)
  /\ coll' = Locked(coll, Other, write)
  /\ Idle

OtherUnlocks ==
  /\ coll.writer = Other \/ Other \in coll.readers
  /\ coll' = [coll EXCEPT !.writer = IF @ = Other THEN "" ELSE @,
                          !.readers = @ \ {Other}]
  /\ Idle

\* The clock; a call makes its first attempt by StartBy
ClockAdvances(d) ==
  /\ coll.time + d \in Instants
  /\ (coll.caller.pc = "loop" /\ coll.caller.failures = 0)
       => coll.time + d <= StartBy
  /\ coll' = [coll EXCEPT !.time = @ + d]
  /\ Idle

InitLock ==
  /\ NoSupervision
  /\ coll = LockedCollectionOf(ROLE_SINGLE)

NextLock ==
  \/ \E write, useDeadlockDetector, nolock \in BOOLEAN :
       \E timeout \in Timeouts :
         BeginTimed(write, useDeadlockDetector, timeout, nolock)
  \/ \E detects, throws \in BOOLEAN : Iteration(detects, throws)
  \/ EndTimed
  \/ \E write \in BOOLEAN : OtherLocks(write)
  \/ OtherUnlocks
  \/ \E d \in {1, DefaultTimeout} : ClockAdvances(d)

SpecLock == InitLock /\ [][NextLock]_vars

\* The loop goes on and the clock goes on
SpecLockFair ==
  /\ SpecLock
  /\ WF_vars(\E detects, throws \in BOOLEAN : Iteration(detects, throws))
  /\ WF_vars(\E d \in {1, DefaultTimeout} : ClockAdvances(d))

-----------------------------------------------------------------------------
(* The properties of the lock of a collection *)

\* The caller holds the lock in the mode it asked for
HoldsLock == 
  IF coll.caller.write THEN coll.writer = Caller ELSE Caller \in coll.readers

HoldsNothing ==
  /\ coll.writer # Caller
  /\ Caller \notin coll.readers
  /\ Caller \notin coll.blocked

\* The timeout that counts: 15 minutes for a timeout <= 0
EffectiveTimeout ==
  IF coll.caller.timeout <= 0 THEN DefaultTimeout ELSE coll.caller.timeout

\* The detector is asked in the first failed attempt and in every fifth
\* after one in which it was asked; a deadlock is returned only when it was
\* asked, a timeout only after the timeout has passed since the first
\* failed attempt; a call that returns an error leaves the caller without
\* the lock and not blocked for the detector
ReturnsClean ==
  /\ (coll.caller.pc = "returned" /\ coll.caller.res # TRI_ERROR_NO_ERROR)
       => HoldsNothing /\ ~coll.caller.holds
  /\ (coll.caller.pc = "returned" /\ coll.caller.res = TRI_ERROR_DEADLOCK)
       => coll.caller.useDeadlockDetector /\ coll.caller.consulted
  /\ (coll.caller.pc = "returned" /\ coll.caller.res = TRI_ERROR_LOCK_TIMEOUT)
       => coll.time > coll.caller.blockedAt + EffectiveTimeout
  /\ (/\ coll.caller.useDeadlockDetector
      /\ coll.caller.failures > 0
      /\ ~(coll.caller.pc = "returned" /\ coll.caller.res = TRI_ERROR_NO_ERROR))
       => (coll.caller.consulted
             <=> (coll.caller.failures = 1
                    \/ coll.caller.since = DeadlockCheckEvery))

\* C24 as stated, the part on the states: a call returns with success and
\* the lock, with a deadlock or with a lock timeout, and after an error the
\* caller has no lock and is not blocked for the detector.
C24_ReturnsAsStated ==
  /\ ReturnsClean
  /\ coll.caller.pc = "returned"
       => /\ coll.caller.res \in {TRI_ERROR_NO_ERROR, TRI_ERROR_DEADLOCK,
                                  TRI_ERROR_LOCK_TIMEOUT}
          /\ coll.caller.res = TRI_ERROR_NO_ERROR => HoldsLock

\* C24, amended: beginReadTimed and beginWriteTimed always return: with
\* success when an attempt gets the lock (or at once, without the lock, for
\* a collection of the no-lock headers), with a deadlock when the detector
\* reports one (it is asked in the first failed attempt and in every fifth
\* further one), with out-of-memory when the detector throws, or with a lock
\* timeout once the timeout (15 minutes for a timeout <= 0) has passed
\* since the first failed attempt; after every return with an error the
\* caller has no lock and is not blocked for the detector.
C24_AlwaysReturns ==
  /\ [](/\ ReturnsClean
        /\ coll.caller.pc = "returned"
             => /\ coll.caller.res \in {TRI_ERROR_NO_ERROR, TRI_ERROR_DEADLOCK,
                                        TRI_ERROR_LOCK_TIMEOUT,
                                        TRI_ERROR_OUT_OF_MEMORY}
                /\ (coll.caller.res = TRI_ERROR_NO_ERROR /\ coll.caller.holds)
                     => HoldsLock
                /\ coll.caller.res = TRI_ERROR_OUT_OF_MEMORY
                     => coll.caller.useDeadlockDetector /\ coll.caller.consulted)
  /\ (coll.caller.pc = "loop") ~> (coll.caller.pc = "returned")

\* A writer that waited with the default timeout has timed out after the
\* detector was asked more than once
C24_Witness ==
  /\ coll.caller.pc = "returned"
  /\ coll.caller.write
  /\ coll.caller.res = TRI_ERROR_LOCK_TIMEOUT
  /\ coll.caller.useDeadlockDetector
  /\ coll.caller.timeout = 0
  /\ coll.caller.since = DeadlockCheckEvery
  /\ coll.caller.failures = 2
-----------------------------------------------------------------------------
(* Jobs whose start is rejected *)

\* A cluster at the moment a new leader takes over: server C has been
\* persisted as FAILED and its failedServer job is in ToDo, behind an
\* addFollower job for shard s1, which C follows
PlanStart ==
  [c1 |-> [replicationFactor |-> 3, distributeShardsLike |-> "",
           shards |-> [s1 |-> <<"A", "C">>]],
   c2 |-> [replicationFactor |-> 2, distributeShardsLike |-> "",
           shards |-> [s3 |-> <<"C", "A">>]]]

InitStart ==
  /\ agency = [AgencyJobs EXCEPT
                 !.Plan = PlanStart,
                 !.Current = CurrentOf(PlanStart),
                 !.ToDo = (JobIdOf(1) :>
                             AddFollowerToDo(JobIdOf(1), "supervision", "c1",
                                             "s1", <<"B">>))
                          @@ (JobIdOf(2) :>
                                FailedServerToDo(JobIdOf(2), "supervision",
                                                 "C"))]
  /\ transient = [i \in {1} |-> TransientOf]
  /\ sup = [i \in {1} |-> SupervisionOf(TRUE)]
  /\ now = 0
  /\ alive = [srv \in AllServers |-> TRUE]
  /\ hlog = NoTick
  /\ coll = NoCollection

NextStart ==
  \/ \E i \in DOMAIN sup : UpdateSnapshot(i)
  \/ \E i \in DOMAIN sup : Work(i)
  \/ \E c \in Range(CollectionOrder) : \E sh \in Range(ShardOrder) :
       SyncCurrent(c, sh)
  \/ \E srv \in AllDBServers : SubmitRemoveServer(srv)

SpecStart == InitStart /\ [][NextStart]_vars

\* The job that holds the resource a job wants, <<>> when it is free
HolderOf(a, job) ==
  IF job.type \in ShardJobKinds
  THEN IF job.shard \in DOMAIN a.Shards THEN a.Shards[job.shard] ELSE <<>>
  ELSE IF job.type \in ServerJobKinds /\ job.server \in DOMAIN a.DBServers
  THEN a.DBServers[job.server]
  ELSE <<>>

\* start gets as far as its transaction
StartReached(S, job) ==
  CASE job.type = "addFollower" ->
         /\ job.newFollower[1] \notin Range(S.Current[job.collection][job.shard])
         /\ job.newFollower[1]
              \notin Range(S.Plan[job.collection].shards[job.shard])
    [] job.type = "removeFollower" ->
         Len(S.Plan[job.collection].shards[job.shard]) >= 2
    [] job.type = "failedServer" ->
         S.Health[job.server].Status = HEALTH_STATUS_FAILED
    [] OTHER -> TRUE

\* The ToDo jobs of the snapshot of supervisor i whose resource another job
\* holds before and after the step
RejectedJobs(i, kinds) ==
  LET S == sup[i].snapshot[1].S
  IN {j \in DOMAIN S.ToDo \cap DOMAIN agency.ToDo :
        /\ S.ToDo[j].type \in kinds
        /\ StartReached(S, S.ToDo[j])
        /\ HolderOf(agency, S.ToDo[j]) # <<>>
        /\ HolderOf(agency', S.ToDo[j]) = HolderOf(agency, S.ToDo[j])}

StaysInToDo(j) ==
  /\ j \in DOMAIN agency'.ToDo
  /\ agency'.ToDo[j] = agency.ToDo[j]
  /\ j \notin DOMAIN agency'.Pending
  /\ j \notin DOMAIN agency'.Failed
  /\ j \notin DOMAIN agency'.Finished

\* C25: a job of any kind (failedFollower jobs read from the snapshot
\* included) whose start transaction the agency rejects, because the
\* resource it wants is blocked, is in ToDo after the tick as it was before:
\* not in Pending, Failed or Finished, and not the holder of the resource.
C25_RejectedStartStaysInToDo ==
  [][\A i \in DOMAIN sup :
       (sup[i].snapshot # <<>> /\ sup'[i].snapshot = <<>>) =>
         \A j \in RejectedJobs(i, ShardJobKinds \cup ServerJobKinds) :
           StaysInToDo(j)]_vars

\* The same for the kinds whose constructor finds the entry of the job
RejectedStartStaysInToDoButFailedFollower ==
  [][\A i \in DOMAIN sup :
       (sup[i].snapshot # <<>> /\ sup'[i].snapshot = <<>>) =>
         \A j \in RejectedJobs(i, (ShardJobKinds \cup ServerJobKinds)
                                    \ {"failedFollower"}) :
           StaysInToDo(j)]_vars
-----------------------------------------------------------------------------
(* The table of the health check of a DB server *)

\* What the check of supervisor i finds for a server before its tick
Freshness(i, srv) == Observed(transient[i], srv).good

PreviousStatus(i, srv) == Observed(transient[i], srv).last.Status

ElapsedSinceAck(i, srv) ==
  Elapsed(Observed(transient[i], srv).last.LastHeartbeatAcked)

\* The status the tick has produced, and whether it has persisted it
Produced(i, srv, status) == transient'[i].Health[srv].Status = status

ProducedAndPersisted(i, srv, status) ==
  /\ Produced(i, srv, status)
  /\ hlog'.reports[srv].persistent
  /\ agency'.Health[srv].Status = status

\* The rows of the table for the tick of supervisor i and server srv
RowGood(i, srv) ==
  Freshness(i, srv) => Produced(i, srv, HEALTH_STATUS_GOOD)

RowUnset(i, srv) ==
  (~Freshness(i, srv) /\ PreviousStatus(i, srv) = NoStatus)
    => ProducedAndPersisted(i, srv, HEALTH_STATUS_BAD)

RowGoodToBad(i, srv) ==
  (~Freshness(i, srv) /\ PreviousStatus(i, srv) = HEALTH_STATUS_GOOD)
    => ProducedAndPersisted(i, srv, HEALTH_STATUS_BAD)

\* (with the heartbeat status as last observed: a change of it alone has
\* the report persisted)
RowBadInGrace(i, srv) ==
  (/\ ~Freshness(i, srv)
   /\ PreviousStatus(i, srv) = HEALTH_STATUS_BAD
   /\ ElapsedSinceAck(i, srv) <= GracePeriod
   /\ ~hlog'.reports[srv].hbChanged)
    => /\ Produced(i, srv, HEALTH_STATUS_BAD)
       /\ ~hlog'.reports[srv].persistent

RowBadToFailed(i, srv) ==
  (/\ ~Freshness(i, srv)
   /\ PreviousStatus(i, srv) = HEALTH_STATUS_BAD
   /\ ElapsedSinceAck(i, srv) > GracePeriod)
    => ProducedAndPersisted(i, srv, HEALTH_STATUS_FAILED)

\* The step is a tick that ran the health checks
CheckedTick == hlog' # hlog /\ hlog'.tick = "checked"

\* C26: the status a health check produces for a planned DB server follows
\* the table: fresh heartbeat, GOOD; no fresh heartbeat and no previous
\* status, BAD and persisted; no fresh heartbeat and previous status GOOD,
\* BAD and persisted whatever the time elapsed; no fresh heartbeat, previous
\* status BAD and at most the grace period elapsed, BAD and not persisted;
\* no fresh heartbeat, previous status BAD and more than the grace period
\* elapsed, FAILED and persisted.
C26_TransitionTable ==
  [][CheckedTick =>
       \A srv \in agency.PlanDBServers :
         /\ RowGood(hlog'.by, srv)
         /\ RowUnset(hlog'.by, srv)
         /\ RowGoodToBad(hlog'.by, srv)
         /\ RowBadInGrace(hlog'.by, srv)
         /\ RowBadToFailed(hlog'.by, srv)]_vars
-----------------------------------------------------------------------------
(* The job ids of a supervisor *)

\* The supervisor leads and has one id of its range left; two shards want a
\* second copy.  A client may ask for the removal of a server, with an id
\* it takes from /Sync/LatestID
PlanIdRange ==
  [c1 |-> [replicationFactor |-> 2, distributeShardsLike |-> "",
           shards |-> [s1 |-> <<"A">>, s2 |-> <<"B">>]]]

InitIdRange ==
  /\ agency = [AgencyOf({"A", "B"}, {}, PlanIdRange, CurrentOf(PlanIdRange))
                 EXCEPT !.Health = [srv \in AllServers |->
                                      IF srv \in {"A", "B"} THEN GoodHealth
                                      ELSE UnsetHealth],
                        !.LatestID = 1 + IdStep]
  /\ transient = [i \in {1} |-> TransientOf]
  /\ sup = [i \in {1} |->
              [SupervisionOf(TRUE) EXCEPT !.jobId = IdStep,
                                          !.jobIdMax = 1 + IdStep]]
  /\ now = 0
  /\ alive = [srv \in AllServers |-> TRUE]
  /\ hlog = NoTick
  /\ coll = NoCollection

NextIdRange ==
  \/ \E i \in DOMAIN sup : UpdateSnapshot(i)
  \/ \E i \in DOMAIN sup : Work(i)
  \/ \E srv \in AllDBServers : SubmitRemoveServer(srv)
  \/ \E c \in Range(CollectionOrder) : \E sh \in Range(ShardOrder) :
       SyncCurrent(c, sh)

SpecIdRange == InitIdRange /\ [][NextIdRange]_vars

\* The ids supervisor i assigns in the step: what std::to_string(_jobId++)
\* has yielded
AssignedIds(i) == {n \in 0..(sup'[i].jobId - 1) : n >= sup[i].jobId}

\* The range supervisor i has obtained from /Sync/LatestID
InOwnRange(i, n) ==
  /\ sup[i].jobIdMax # 0
  /\ sup[i].jobIdMax <= agency.LatestID
  /\ n >= sup[i].jobIdMax - IdStep
  /\ n < sup[i].jobIdMax

\* C27: every job id a supervisor assigns in the work of a tick, however
\* many they are, lies in the range [jobIdMax - 10000, jobIdMax) it has
\* obtained from /Sync/LatestID, and no job has that id already.
C27_IdsWithinOwnRange ==
  [][\A i \in DOMAIN sup :
       (sup[i].snapshot # <<>> /\ sup'[i].snapshot = <<>>) =>
         \A n \in AssignedIds(i) :
           /\ InOwnRange(i, n)
           /\ JobIdOf(n) \notin AllJobs(agency)]_vars
-----------------------------------------------------------------------------
(* shrinkCluster *)

MaxTarget == 3       \* the largest /Target/NumberOfDBServers an operator sets

\* Collection c1 with replicationFactor rf on A (and B), and, in a cluster
\* that has server D, collection c2 with one copy of its shard on D
PlanShrink(servers, rf) ==
  LET c1 == [replicationFactor |-> rf, distributeShardsLike |-> "",
             shards |-> [s1 |-> IF rf = 1 \/ "B" \notin servers
                                THEN <<"A">> ELSE <<"A", "B">>]]
      c2 == [replicationFactor |-> 1, distributeShardsLike |-> "",
             shards |-> [s3 |-> <<"D">>]]
  IN IF "D" \in servers THEN [c1 |-> c1, c2 |-> c2] ELSE [c1 |-> c1]

\* A cluster at rest: no job, every server GOOD but for those of failed,
\* whose failedServer jobs have come to their end
ClusterShrink(servers, failed, rf, target) ==
  [AgencyOf(servers, {}, PlanShrink(servers, rf),
            CurrentOf(PlanShrink(servers, rf))) EXCEPT
     !.Health = [srv \in AllServers |->
                   IF srv \in failed
                   THEN [GoodHealth EXCEPT !.Status = HEALTH_STATUS_FAILED]
                   ELSE IF srv \in servers THEN GoodHealth
                   ELSE UnsetHealth],
     !.NumberOfDBServers = target]

InitShrink ==
  /\ \E servers \in {{"A"}, {"A", "B", "C"}, {"A", "B", "C", "D"}} :
     \E failed \in SUBSET (servers \cap {"C", "D"}) :
     \E rf \in 1..2 :
     \E target \in {<<>>} \cup {<<n>> : n \in 1..MaxTarget} :
       agency = ClusterShrink(servers, failed, rf, target)
  /\ transient = [i \in {1} |-> TransientOf]
  /\ sup = [i \in {1} |-> SupervisionOf(TRUE)]
  /\ now = 0
  /\ alive = [srv \in AllServers |-> TRUE]
  /\ hlog = NoTick
  /\ coll = NoCollection

\* An operator sets /Target/NumberOfDBServers
SetNumberOfDBServers(n) ==
  /\ agency.NumberOfDBServers # <<n>>
  /\ agency' = [agency EXCEPT !.NumberOfDBServers = <<n>>]
  /\ UNCHANGED <<transient, sup, now, alive, hlog, coll>>

NextShrink ==
  \/ \E i \in DOMAIN sup : UpdateSnapshot(i)
  \/ \E i \in DOMAIN sup : Work(i)
  \/ \E srv \in AllDBServers : SubmitRemoveServer(srv)
  \/ \E n \in 1..MaxTarget : SetNumberOfDBServers(n)

SpecShrink == InitShrink /\ [][NextShrink]_vars

\* The cleanOutServer jobs the step has written to ToDo
NewCleanOuts ==
  {j \in DOMAIN agency'.ToDo \ DOMAIN agency.ToDo :
     agency'.ToDo[j].type = "cleanOutServer"}

\* The available servers of a snapshot that are not FAILED
HealthyServers(S) ==
  {x \in Range(availableServers(S)) :
     serverHealth(S, x) # HEALTH_STATUS_FAILED}

\* The last of a set of servers in the ascending order of their names
LastByName(servers) ==
  CHOOSE x \in servers :
    \A y \in servers : IndexOf(ServerOrder, y) <= IndexOf(ServerOrder, x)

MaxReplicationFactor(S) ==
  MaxOf({1} \cup {S.Plan[c].replicationFactor : c \in DOMAIN S.Plan})

\* shrinkCluster has nothing to do for the snapshot
NothingToShrink(S) ==
  \/ DOMAIN S.ToDo # {}
  \/ DOMAIN S.Pending # {}
  \/ S.NumberOfDBServers = <<>>
  \/ S.NumberOfDBServers[1] >= Len(availableServers(S))
  \/ Len(availableServers(S)) = 1

\* C28: the work of a tick schedules no cleanOutServer job when a job is in
\* ToDo or Pending, when /Target/NumberOfDBServers is unset or not smaller
\* than the number of available servers, or when one server is available;
\* when it schedules one, the available servers that are not FAILED are
\* more than the largest replicationFactor and more than the target, the
\* job is the only one, and its server is the last of them by name.
C28_ShrinkCluster ==
  [][\A i \in DOMAIN sup :
       (sup[i].snapshot # <<>> /\ sup'[i].snapshot = <<>>) =>
         LET S == sup[i].snapshot[1].S
         IN /\ NothingToShrink(S) => NewCleanOuts = {}
            /\ NewCleanOuts # {} =>
                 /\ Cardinality(HealthyServers(S)) > MaxReplicationFactor(S)
                 /\ Cardinality(HealthyServers(S)) > S.NumberOfDBServers[1]
                 /\ Cardinality(NewCleanOuts) = 1
                 /\ \A j \in NewCleanOuts :
                      agency'.ToDo[j].server = LastByName(HealthyServers(S))]_vars

\* Servers A, B and C are GOOD, the target is 2 and the largest
\* replicationFactor is 2: a cleanOutServer job for C is in ToDo
C28_Witness ==
  /\ agency.PlanDBServers = {"A", "B", "C"}
  /\ \A srv \in agency.PlanDBServers :
       agency.Health[srv].Status = HEALTH_STATUS_GOOD
  /\ agency.NumberOfDBServers = <<2>>
  /\ MaxReplicationFactor(agency) = 2
  /\ \E j \in DOMAIN agency.ToDo :
       /\ agency.ToDo[j].type = "cleanOutServer"
       /\ agency.ToDo[j].server = "C"
-----------------------------------------------------------------------------
(* enforceReplication *)

\* Collection c1 with replicationFactor rf (0: a satellite) and the shards s1
\* on A and B and s2 on A, and its clone c2 with one shard on A
PlanEnforce(rf) ==
  [c1 |-> [replicationFactor |-> rf, distributeShardsLike |-> "",
           shards |-> [s1 |-> <<"A", "B">>, s2 |-> <<"A">>]],
   c2 |-> [replicationFactor |-> 3, distributeShardsLike |-> "c1",
           shards |-> [s3 |-> <<"A">>]]]

\* The jobs of a client that ToDo may hold for shard s1
MoveShardToDo(jobId, creator, collection, shard) ==
  Job(jobId, "moveShard", creator, "", collection, shard, "", "", <<>>)

InitEnforce ==
  /\ \E rf \in 0..3 : \E todo \in {EmptyMap,
                                   JobIdOf(1) :> MoveShardToDo(JobIdOf(1),
                                                   "client", "c1", "s1")} :
       agency = [AgencyOf({"A", "B", "C"}, {}, PlanEnforce(rf),
                          CurrentOf(PlanEnforce(rf))) EXCEPT
                   !.Health = [srv \in AllServers |->
                                 IF srv \in {"A", "B", "C"} THEN GoodHealth
                                 ELSE UnsetHealth],
                   !.ToDo = todo,
                   !.LatestID = 2]
  /\ transient = [i \in {1} |-> TransientOf]
  /\ sup = [i \in {1} |-> SupervisionOf(TRUE)]
  /\ now = 0
  /\ alive = [srv \in AllServers |-> TRUE]
  /\ hlog = NoTick
  /\ coll = NoCollection

NextEnforce ==
  \/ \E i \in DOMAIN sup : UpdateSnapshot(i)
  \/ \E i \in DOMAIN sup : Work(i)
  \/ \E c \in Range(CollectionOrder) : \E sh \in Range(ShardOrder) :
       SyncCurrent(c, sh)

SpecEnforce == InitEnforce /\ [][NextEnforce]_vars

\* The addFollower and removeFollower jobs for a shard that the step has
\* written to ToDo
NewRepairJobs(shard) ==
  {j \in DOMAIN agency'.ToDo \ DOMAIN agency.ToDo :
     /\ agency'.ToDo[j].type \in {"addFollower", "removeFollower"}
     /\ agency'.ToDo[j].shard = shard}

\* The copies a collection is to have
WantedCopies(S, c) ==
  IF S.Plan[c].replicationFactor = 0
  THEN Cardinality(S.PlanDBServers \ Range(S.CleanedServers))
  ELSE S.Plan[c].replicationFactor

\* A ToDo job of the snapshot of one of the three kinds names the shard
NamedInToDo(S, shard) ==
  \E j \in DOMAIN S.ToDo :
    S.ToDo[j].type \in RepairKinds /\ S.ToDo[j].shard = shard

\* C29: the work of a tick writes at most one addFollower or removeFollower
\* job per planned shard; it writes one exactly when the collection has no
\* distributeShardsLike, the number of planned servers of the shard differs
\* from the desired number (the replicationFactor, or the number of
\* available servers when that is 0), no ToDo job of type addFollower,
\* removeFollower or moveShard names the shard and the shard is not
\* blocked; the job is an addFollower when the shard has fewer servers than
\* desired and a removeFollower when it has more.
C29_EnforceReplication ==
  [][\A i \in DOMAIN sup :
       (sup[i].snapshot # <<>> /\ sup'[i].snapshot = <<>>) =>
         LET S == sup[i].snapshot[1].S
         IN \A c \in DOMAIN S.Plan : \A sh \in DOMAIN S.Plan[c].shards :
              LET actual == Len(S.Plan[c].shards[sh])
                  acts == /\ S.Plan[c].distributeShardsLike = ""
                          /\ actual # WantedCopies(S, c)
                          /\ ~NamedInToDo(S, sh)
                          /\ sh \notin DOMAIN S.Shards
              IN /\ Cardinality(NewRepairJobs(sh)) <= 1
                 /\ ~acts => NewRepairJobs(sh) = {}
                 /\ acts =>
                      /\ NewRepairJobs(sh) # {}
                      /\ \A j \in NewRepairJobs(sh) :
                           /\ agency'.ToDo[j].collection = c
                           /\ agency'.ToDo[j].type =
                                IF actual < WantedCopies(S, c)
                                THEN "addFollower" ELSE "removeFollower"]_vars

\* A tick has written a removeFollower job for s1, which has one server
\* more than the replicationFactor, and none for the shard of the clone
C29_Witness ==
  /\ agency.Plan["c1"].replicationFactor = 1
  /\ \E j \in DOMAIN agency.ToDo :
       /\ agency.ToDo[j].type = "removeFollower"
       /\ agency.ToDo[j].shard = "s1"
  /\ \A b \in Buckets : \A j \in DOMAIN agency[b] : agency[b][j].shard # "s3"
  /\ Len(agency.Plan["c2"].shards["s3"]) < agency.Plan["c2"].replicationFactor
-----------------------------------------------------------------------------
(* The children of a failedServer job *)

\* Server C has failed and its failedServer job is in ToDo.  C follows in
\* both shards of c1 and leads the shard of c2, which may be a clone of c1
\* and of which Current may know nothing yet
PlanFailed(rf, like) ==
  [c1 |-> [replicationFactor |-> rf, distributeShardsLike |-> "",
           shards |-> [s1 |-> <<"A", "C">>, s2 |-> <<"B", "C">>]],
   c2 |-> [replicationFactor |-> 2, distributeShardsLike |-> like,
           shards |-> [s3 |-> <<"C", "A">>]]]

InitFailed ==
  /\ \E servers \in {{"A", "B", "C"}, {"A", "B", "C", "D"}} :
     \E rf \in 2..3 : \E like \in {"", "c1"} : \E known \in BOOLEAN :
       agency = [AgencyOf(servers, {}, PlanFailed(rf, like),
                          [CurrentOf(PlanFailed(rf, like)) EXCEPT
                             !.c2 = IF known THEN @ ELSE EmptyMap]) EXCEPT
                   !.Health = [srv \in AllServers |->
                                 IF srv = "C"
                                 THEN [GoodHealth EXCEPT
                                         !.Status = HEALTH_STATUS_FAILED]
                                 ELSE IF srv \in servers THEN GoodHealth
                                 ELSE UnsetHealth],
                   !.ToDo = JobIdOf(1) :>
                              FailedServerToDo(JobIdOf(1), "supervision", "C"),
                   !.FailedServers = "C" :> <<>>,
                   !.LatestID = 2]
  /\ transient = [i \in {1} |-> TransientOf]
  /\ sup = [i \in {1} |-> SupervisionOf(TRUE)]
  /\ now = 0
  /\ alive = [srv \in AllServers |-> TRUE]
  /\ hlog = NoTick
  /\ coll = NoCollection

NextFailed ==
  \/ \E i \in DOMAIN sup : UpdateSnapshot(i)
  \/ \E i \in DOMAIN sup : Work(i)
  \/ \E sh \in Range(ShardOrder) : SyncCurrent("c1", sh)

SpecFailed == InitFailed /\ [][NextFailed]_vars

\* The failedServer jobs of the snapshot that the step starts
StartedFailedServers(S) ==
  {j \in DOMAIN S.ToDo \cap DOMAIN agency.ToDo :
     /\ S.ToDo[j].type = "failedServer"
     /\ j \in DOMAIN agency'.Pending}

\* The children of job j that the step has written to ToDo for a shard
ChildrenFor(j, type, c, sh) ==
  {k \in DOMAIN agency'.ToDo \ DOMAIN agency.ToDo :
     /\ IsSubJob(k, j)
     /\ agency'.ToDo[k].type = type
     /\ agency'.ToDo[k].collection = c
     /\ agency'.ToDo[k].shard = sh}

\* The available servers that hold no copy of the shard
FreeServers(S, c, sh) ==
  (S.PlanDBServers \ Range(S.CleanedServers)) \ Range(S.Plan[c].shards[sh])

KnownInCurrent(S, c) == DOMAIN S.Current[c] # {}

\* The leader has failed: a failedLeader child to the server at position 1
LeaderChild(S, j, c, sh) ==
  LET servers == S.Plan[c].shards[sh]
  IN (KnownInCurrent(S, c) /\ servers[1] = S.ToDo[j].server)
       => \E k \in ChildrenFor(j, "failedLeader", c, sh) :
            /\ agency'.ToDo[k].fromServer = S.ToDo[j].server
            /\ agency'.ToDo[k].toServer = servers[2]

\* A failedFollower child goes to an available server without a copy
FollowerChildTarget(S, j, c, sh) ==
  \A k \in ChildrenFor(j, "failedFollower", c, sh) :
    /\ S.Plan[c].distributeShardsLike = ""
    /\ IndexOf(S.Plan[c].shards[sh], S.ToDo[j].server) > 1
    /\ agency'.ToDo[k].fromServer = S.ToDo[j].server
    /\ agency'.ToDo[k].toServer \in FreeServers(S, c, sh)

\* A follower of a collection that is no clone has failed and a server
\* without a copy is available: there is a failedFollower child
FollowerChild(S, j, c, sh) ==
  (/\ KnownInCurrent(S, c)
   /\ S.Plan[c].distributeShardsLike = ""
   /\ IndexOf(S.Plan[c].shards[sh], S.ToDo[j].server) > 1
   /\ FreeServers(S, c, sh) # {})
    => ChildrenFor(j, "failedFollower", c, sh) # {}

\* Current knows nothing of the collection: an unassumedLeadership child
UnassumedChild(S, j, c, sh) ==
  ~KnownInCurrent(S, c) => ChildrenFor(j, "unassumedLeadership", c, sh) # {}

\* C30: the start of a failedServer job for server S writes, for every
\* planned shard that has S: a failedLeader child to the server at position
\* 1 when S leads; a failedFollower child when S follows in a collection
\* that is no clone and some available server holds no copy of the shard,
\* and every failedFollower child goes to such a server; and for the shards
\* of a collection of which Current knows nothing an unassumedLeadership
\* child.
C30_FailedServerChildren ==
  [][\A i \in DOMAIN sup :
       (sup[i].snapshot # <<>> /\ sup'[i].snapshot = <<>>) =>
         LET S == sup[i].snapshot[1].S
         IN \A j \in StartedFailedServers(S) :
            \A c \in DOMAIN S.Plan : \A sh \in DOMAIN S.Plan[c].shards :
              /\ UnassumedChild(S, j, c, sh)
              /\ S.ToDo[j].server \in Range(S.Plan[c].shards[sh])
                   => /\ LeaderChild(S, j, c, sh)
                      /\ FollowerChildTarget(S, j, c, sh)
                      /\ FollowerChild(S, j, c, sh)]_vars

\* The same without the promise of a failedFollower child
FailedServerChildrenButPromise ==
  [][\A i \in DOMAIN sup :
       (sup[i].snapshot # <<>> /\ sup'[i].snapshot = <<>>) =>
         LET S == sup[i].snapshot[1].S
         IN \A j \in StartedFailedServers(S) :
            \A c \in DOMAIN S.Plan : \A sh \in DOMAIN S.Plan[c].shards :
              /\ UnassumedChild(S, j, c, sh)
              /\ S.ToDo[j].server \in Range(S.Plan[c].shards[sh])
                   => /\ LeaderChild(S, j, c, sh)
                      /\ FollowerChildTarget(S, j, c, sh)]_vars
-----------------------------------------------------------------------------
(* The end of a failedServer job *)

\* Server C has failed and its failedServer job is in ToDo; C leads the
\* shard of c1 and follows in the shard of c2.  The supervisor has led for
\* longer than the grace period, so its checks run, and C may send
\* heartbeats again
PlanChildren ==
  [c1 |-> [replicationFactor |-> 2, distributeShardsLike |-> "",
           shards |-> [s1 |-> <<"C", "A">>]],
   c2 |-> [replicationFactor |-> 2, distributeShardsLike |-> "",
           shards |-> [s2 |-> <<"A", "C">>]]]

InitChildren ==
  /\ agency = [AgencyOf({"A", "B", "C"}, {}, PlanChildren,
                        CurrentOf(PlanChildren)) EXCEPT
                 !.Health = [srv \in AllServers |->
                               IF srv \in {"A", "B"} THEN GoodHealth
                               ELSE IF srv = "C"
                               THEN [GoodHealth EXCEPT
                                       !.Status = HEALTH_STATUS_FAILED]
                               ELSE UnsetHealth],
                 !.ToDo = JobIdOf(1) :>
                            FailedServerToDo(JobIdOf(1), "supervision", "C"),
                 !.FailedServers = "C" :> <<>>,
                 !.LatestID = 1 + IdStep]
  /\ transient = [i \in {1} |-> TransientOf]
  /\ sup = [i \in {1} |-> SupervisionOf(TRUE)]
  /\ now = GracePeriod + 1
  /\ alive = [srv \in AllServers |-> TRUE]
  /\ hlog = NoTick
  /\ coll = NoCollection

NextChildren ==
  \/ \E i \in DOMAIN sup : UpdateSnapshot(i)
  \/ \E i \in DOMAIN sup : Work(i)
  \/ \E srv \in {"A", "B", "C"} : Heartbeat(srv, "SERVING")
  \/ \E c \in Range(CollectionOrder) : \E sh \in Range(ShardOrder) :
       SyncCurrent(c, sh)

SpecChildren == InitChildren /\ [][NextChildren]_vars

\* The children of job j in a bucket
ChildrenIn(bucket, j) == {k \in DOMAIN bucket : IsSubJob(k, j)}

\* The Pending failedServer jobs that the step moves to Finished
FinishedFailedServers ==
  {j \in DOMAIN agency.Pending :
     /\ agency.Pending[j].type = "failedServer"
     /\ j \notin DOMAIN agency.Finished
     /\ j \in DOMAIN agency'.Finished}

\* The Pending failedServer jobs of the snapshot of a tick that sees the
\* failed server with the health GOOD
RecoveredFailedServers(S) ==
  {j \in DOMAIN S.Pending \cap DOMAIN agency.Pending :
     /\ S.Pending[j].type = "failedServer"
     /\ S.Health[S.Pending[j].server].Status = HEALTH_STATUS_GOOD}

\* A failedServer job moves to Finished only when it has no child in ToDo or
\* Pending
FinishesWithoutOpenChildren ==
  [][\A j \in FinishedFailedServers :
       /\ ChildrenIn(agency'.ToDo, j) = {}
       /\ ChildrenIn(agency'.Pending, j) = {}]_vars

\* The same of the snapshot the tick works on: no child in Pending, and none
\* in ToDo unless the server is GOOD again
FinishesWithoutOpenChildrenSeen ==
  [][\A i \in DOMAIN sup :
       (sup[i].snapshot # <<>> /\ sup'[i].snapshot = <<>>) =>
         LET S == sup[i].snapshot[1].S
         IN \A j \in FinishedFailedServers \cap DOMAIN S.Pending :
              /\ ChildrenIn(S.Pending, j) = {}
              /\ \/ ChildrenIn(S.ToDo, j) = {}
                 \/ S.Health[S.Pending[j].server].Status = HEALTH_STATUS_GOOD
     ]_vars

\* When the server is GOOD again, the tick deletes the children it saw in
\* ToDo and finishes the job if it saw no child in Pending
RecoveredDeletesToDoChildren ==
  [][\A i \in DOMAIN sup :
       (sup[i].snapshot # <<>> /\ sup'[i].snapshot = <<>>) =>
         LET S == sup[i].snapshot[1].S
         IN \A j \in RecoveredFailedServers(S) :
              /\ ChildrenIn(S.ToDo, j) \cap DOMAIN agency'.ToDo = {}
              /\ ChildrenIn(S.Pending, j) = {} =>
                   /\ j \in DOMAIN agency'.Finished
                   /\ j \notin DOMAIN agency'.Pending]_vars

\* C31: a Pending failedServer job moves to Finished only in a tick where
\* none of its children remains in ToDo or Pending; when the failed server is
\* GOOD again, the children that remained in ToDo are deleted and the job
\* finishes successfully once no child is Pending
C31_FailedServerFinishes ==
  [][/\ \A j \in FinishedFailedServers :
          /\ ChildrenIn(agency'.ToDo, j) = {}
          /\ ChildrenIn(agency'.Pending, j) = {}
     /\ \A i \in DOMAIN sup :
          (sup[i].snapshot # <<>> /\ sup'[i].snapshot = <<>>) =>
            LET S == sup[i].snapshot[1].S
            IN \A j \in RecoveredFailedServers(S) :
                 /\ ChildrenIn(S.ToDo, j) \cap DOMAIN agency'.ToDo = {}
                 /\ ChildrenIn(S.Pending, j) = {} =>
                      j \in DOMAIN agency'.Finished]_vars
-----------------------------------------------------------------------------
(* The life of a failedFollower job *)

\* The list with every from replaced by to at its position
Replaced(servers, from, to) ==
  [k \in DOMAIN servers |-> IF servers[k] = from THEN to ELSE servers[k]]

\* The failedFollower jobs of a bucket of the snapshot that are still in it
\* when the tick runs them
FailedFollowersIn(S, bucket) ==
  {j \in DOMAIN S[bucket] \cap DOMAIN agency[bucket] :
     S[bucket][j].type = "failedFollower"}

\* What the start of job has left: the job in Pending, toServer in the place
\* of fromServer in the Plan, the shard in /Target/FailedServers/<from>
StartedFailedFollower(S, job) ==
  /\ job.jobId \in DOMAIN agency'.Pending
  /\ job.jobId \notin DOMAIN agency'.Failed
  /\ agency'.Plan[job.collection].shards[job.shard] =
       Replaced(S.Plan[job.collection].shards[job.shard],
                job.fromServer, job.toServer)
  /\ job.fromServer \in DOMAIN agency'.FailedServers
  /\ job.shard \in Range(agency'.FailedServers[job.fromServer])

\* What a start that the agency rejected has left: the job in ToDo
WaitingFailedFollower(job) ==
  /\ job.jobId \in DOMAIN agency'.ToDo
  /\ agency'.Plan[job.collection].shards[job.shard] =
       agency.Plan[job.collection].shards[job.shard]

\* What the end of the job has left
FinishedFailedFollower(job) ==
  /\ job.jobId \in DOMAIN agency'.Finished
  /\ job.jobId \notin DOMAIN agency'.Pending
  /\ job.shard \notin DOMAIN agency'.Shards
  /\ job.fromServer \in DOMAIN agency'.FailedServers =>
       job.shard \notin Range(agency'.FailedServers[job.fromServer])

\* C32: the tick that runs a failedFollower job of ToDo puts toServer in the
\* place of fromServer in the Plan shard list, the other servers and their
\* order unchanged, with the shard recorded in /Target/FailedServers/<from>
\* (or leaves the job in ToDo when the shard is blocked); the tick that finds
\* the job Pending and the Current list of the shard equal to the Plan moves
\* it to Finished, releases the shard and erases it from
\* /Target/FailedServers/<from>
C32_FailedFollowerLife ==
  [][\A i \in DOMAIN sup :
       (sup[i].snapshot # <<>> /\ sup'[i].snapshot = <<>> /\ sup[i].leading) =>
         LET S == sup[i].snapshot[1].S
         IN /\ \A j \in FailedFollowersIn(S, "ToDo") :
                 \/ StartedFailedFollower(S, S.ToDo[j])
                 \/ /\ S.ToDo[j].shard \in DOMAIN agency.Shards
                    /\ WaitingFailedFollower(S.ToDo[j])
            /\ \A j \in FailedFollowersIn(S, "Pending") :
                 compareServerLists(
                   S.Plan[S.Pending[j].collection].shards[S.Pending[j].shard],
                   S.Current[S.Pending[j].collection][S.Pending[j].shard])
                 => FinishedFailedFollower(S.Pending[j])]_vars

\* The record that create leaves in /Target/FailedServers/<from> is the part
\* that the tick of FailedServer::start keeps
FailedFollowerRecorded ==
  [][\A j \in DOMAIN agency'.ToDo \ DOMAIN agency.ToDo :
       agency'.ToDo[j].type = "failedFollower" =>
         /\ agency'.ToDo[j].fromServer \in DOMAIN agency'.FailedServers
         /\ agency'.ToDo[j].shard \in
              Range(agency'.FailedServers[agency'.ToDo[j].fromServer])]_vars
-----------------------------------------------------------------------------
(* The start of an addFollower job *)

MaxListed == 2         \* servers a client lists as newFollower

\* Shard s1 of c1 is held by A alone; Current may still list B, which has
\* left the Plan
PlanAdd ==
  [c1 |-> [replicationFactor |-> 2, distributeShardsLike |-> "",
           shards |-> [s1 |-> <<"A">>]]]

\* The lists of distinct servers a client can name
ListedFollowers ==
  {q \in UNION {[1..n -> {"A", "B", "C"}] : n \in 1..MaxListed} :
     \A k, m \in DOMAIN q : k # m => q[k] # q[m]}

\* One or two addFollower jobs that clients have written to ToDo, the second
\* with one server
InitAdd ==
  /\ \E first \in ListedFollowers :
     \E second \in {<<>>} \cup {<<srv>> : srv \in {"A", "B", "C"}} :
     \E current \in {<<"A">>, <<"A", "B">>} :
       agency = [AgencyOf({"A", "B", "C"}, {}, PlanAdd,
                          [c1 |-> [s1 |-> current]]) EXCEPT
                   !.Health = [srv \in AllServers |->
                                 IF srv \in {"A", "B", "C"} THEN GoodHealth
                                 ELSE UnsetHealth],
                   !.ToDo =
                      IF second = <<>>
                      THEN JobIdOf(1) :>
                             AddFollowerToDo(JobIdOf(1), "client", "c1",
                                             "s1", first)
                      ELSE JobIdOf(1) :>
                             AddFollowerToDo(JobIdOf(1), "client", "c1",
                                             "s1", first)
                           @@ JobIdOf(2) :>
                             AddFollowerToDo(JobIdOf(2), "client", "c1",
                                             "s1", second),
                   !.LatestID = 3]
  /\ transient = [i \in {1} |-> TransientOf]
  /\ sup = [i \in {1} |-> SupervisionOf(TRUE)]
  /\ now = 0
  /\ alive = [srv \in AllServers |-> TRUE]
  /\ hlog = NoTick
  /\ coll = NoCollection

NextAdd ==
  \/ \E i \in DOMAIN sup : UpdateSnapshot(i)
  \/ \E i \in DOMAIN sup : Work(i)
  \/ SyncCurrent("c1", "s1")

SpecAdd == InitAdd /\ [][NextAdd]_vars

\* The addFollower jobs of the snapshot's ToDo that the tick runs
AddFollowersToStart(S) ==
  {j \in DOMAIN S.ToDo \cap DOMAIN agency.ToDo :
     S.ToDo[j].type = "addFollower"}

ShardPlan(a, job) == a.Plan[job.collection].shards[job.shard]

ShardCurrent(a, job) == a.Current[job.collection][job.shard]

\* The servers that hold the shard in the Plan or in Current
Holders(S, job) == Range(ShardPlan(S, job)) \cup Range(ShardCurrent(S, job))

\* Another job for the same shard that the step has started
OtherStarted(job) ==
  \E k \in DOMAIN agency'.Pending \ DOMAIN agency.Pending :
    k # job.jobId /\ agency'.Pending[k].shard = job.shard

\* The job has been refused: it is in Failed and has not touched the Plan
RefusedAddFollower(job) ==
  /\ job.jobId \in DOMAIN agency'.Failed
  /\ job.jobId \notin DOMAIN agency'.Pending
  /\ ~OtherStarted(job) => ShardPlan(agency', job) = ShardPlan(agency, job)

\* The job has started, or waits in ToDo: a start has appended newFollower
\* and incremented the version, and has met the Plan and Current lists of
\* the snapshot and a shard that is not blocked
StartedAddFollower(S, job) ==
  /\ job.jobId \in DOMAIN agency'.Pending \cup DOMAIN agency'.ToDo
  /\ job.jobId \in DOMAIN agency'.Pending =>
       /\ ShardPlan(agency', job) = ShardPlan(S, job) \o job.newFollower
       /\ agency'.PlanVersion > agency.PlanVersion
       /\ ShardPlan(agency, job) = ShardPlan(S, job)
       /\ ShardCurrent(agency, job) = ShardCurrent(S, job)
       /\ job.shard \notin DOMAIN agency.Shards
  /\ (job.jobId \in DOMAIN agency'.ToDo /\ ~OtherStarted(job)) =>
       ShardPlan(agency', job) = ShardPlan(agency, job)

-----------------------------------------------------------------------------
(* The life of a removeServer job *)

\* Two or three planned DB servers, of which C may have been cleaned out, and
\* one collection of replication factor 1 or 2: s1 is held by A, and by B
\* too when the factor is 2, s2 by B.  Clients have asked for the removal of
\* one server or of two; D is no server of the Plan
PlanRemove(rf) ==
  [c1 |-> [replicationFactor |-> rf, distributeShardsLike |-> "",
           shards |-> [s1 |-> IF rf = 2 THEN <<"A", "B">> ELSE <<"A">>,
                       s2 |-> <<"B">>]]]

RemoveServerToDos(first, second) ==
  IF second = ""
  THEN JobIdOf(1) :> RemoveServerToDo(JobIdOf(1), "client", first)
  ELSE JobIdOf(1) :> RemoveServerToDo(JobIdOf(1), "client", first)
       @@ JobIdOf(2) :> RemoveServerToDo(JobIdOf(2), "client", second)

InitRemove ==
  /\ \E servers \in {{"A", "B"}, {"A", "B", "C"}} :
     \E cleaned \in {<<>>, <<"C">>} :
     \E rf \in 1..2 :
     \E first \in {"A", "B", "C", "D"} :
     \E second \in {"", "A", "B"} \ {first} :
       /\ Range(cleaned) \subseteq servers
       /\ agency = [AgencyOf(servers, {}, PlanRemove(rf),
                             CurrentOf(PlanRemove(rf))) EXCEPT
                      !.Health = [srv \in AllServers |->
                                    IF srv \in servers THEN GoodHealth
                                    ELSE UnsetHealth],
                      !.CleanedServers = cleaned,
                      !.ToDo = RemoveServerToDos(first, second),
                      !.LatestID = 3]
  /\ transient = [i \in {1} |-> TransientOf]
  /\ sup = [i \in {1} |-> SupervisionOf(TRUE)]
  /\ now = 0
  /\ alive = [srv \in AllServers |-> TRUE]
  /\ hlog = NoTick
  /\ coll = NoCollection

NextRemove ==
  \/ \E i \in DOMAIN sup : UpdateSnapshot(i)
  \/ \E i \in DOMAIN sup : Work(i)
  \/ \E sh \in {"s1", "s2"} : SyncCurrent("c1", sh)

SpecRemove == InitRemove /\ [][NextRemove]_vars

\* The removeServer jobs that the step moves into a bucket
RemoveServersInto(bucket) ==
  {j \in DOMAIN agency'[bucket] \ DOMAIN agency[bucket] :
     agency'[bucket][j].type = "removeServer"}

\* The shards of a plan that list the server
ShardsOf(a, server) ==
  {<<c, sh>> \in (DOMAIN a.Plan) \X Range(ShardOrder) :
     sh \in DOMAIN a.Plan[c].shards
     /\ server \in Range(a.Plan[c].shards[sh])}

\* What RemoveServer::checkFeasibility asks of a state of the agency
Feasible(a, server) ==
  /\ server \in a.PlanDBServers
  /\ server \notin Range(a.CleanedServers)
  /\ Len(availableServers(a)) - 1 >=
       MaxOf({1} \cup {a.Plan[c].replicationFactor : c \in DOMAIN a.Plan})

\* A removeServer job reaches Finished only if the removal is feasible
FinishedOnlyIfFeasible ==
  \A j \in RemoveServersInto("Finished") :
    Feasible(agency, agency'.Finished[j].server)

\* When it finishes the server is in no Plan shard list and in
\* /Target/CleanedServers, and /Plan/Version has been incremented
FinishedMeansCleaned ==
  \A j \in RemoveServersInto("Finished") :
    LET server == agency'.Finished[j].server
    IN /\ ShardsOf(agency', server) = {}
       /\ server \in Range(agency'.CleanedServers)
       /\ agency'.PlanVersion > agency.PlanVersion

\* The rewrite has met the shard lists of the snapshot that name the server
FinishedOnUnchangedLists ==
  \A i \in DOMAIN sup :
    (sup[i].snapshot # <<>> /\ sup'[i].snapshot = <<>>) =>
      LET S == sup[i].snapshot[1].S
      IN \A j \in RemoveServersInto("Finished") \cap DOMAIN S.Pending :
           \A x \in ShardsOf(S, S.Pending[j].server) :
             agency.Plan[x[1]].shards[x[2]] = S.Plan[x[1]].shards[x[2]]

\* The job that ends in Failed has left the Plan lists of its server and
\* /Target/CleanedServers as they were and has released the server
FailedMeansUntouched ==
  \A j \in RemoveServersInto("Failed") :
    LET server == agency'.Failed[j].server
    IN /\ ShardsOf(agency', server) = ShardsOf(agency, server)
       /\ agency'.CleanedServers = agency.CleanedServers
       /\ server \notin DOMAIN agency'.DBServers

\* The job whose removal is not feasible in the snapshot of the tick that
\* starts it ends in Failed, and only such a job does
InfeasibleFails ==
  \A i \in DOMAIN sup :
    (sup[i].snapshot # <<>> /\ sup'[i].snapshot = <<>> /\ sup[i].leading) =>
      LET S == sup[i].snapshot[1].S
      IN \A j \in DOMAIN S.ToDo \cap DOMAIN agency.ToDo :
           (S.ToDo[j].type = "removeServer" /\ j \notin DOMAIN agency'.ToDo)
           => IF Feasible(S, S.ToDo[j].server)
              THEN j \in DOMAIN agency'.Pending
              ELSE j \in DOMAIN agency'.Failed

\* C34: a removeServer job reaches Finished only if the server is in
\* /Plan/DBServers, not in /Target/CleanedServers, and one server less than
\* the available ones is at least the largest replicationFactor; when it
\* finishes the server is in no Plan shard list, is in /Target/CleanedServers
\* and /Plan/Version has been incremented, the shard lists that named it
\* being those of the snapshot; a job that violates a precondition ends in
\* Failed with the Plan and /Target/CleanedServers unchanged and the server
\* released
C34_RemoveServerLife ==
  [][/\ FinishedOnlyIfFeasible
     /\ FinishedMeansCleaned
     /\ FinishedOnUnchangedLists
     /\ FailedMeansUntouched
     /\ InfeasibleFails]_vars

\* The parts that hold: the feasibility is that of the snapshot of the tick
\* that starts the job, and the rewrite is conditioned on the lists it saw
RemoveServerAsChecked ==
  [][/\ FinishedOnUnchangedLists
     /\ FailedMeansUntouched
     /\ InfeasibleFails]_vars
-----------------------------------------------------------------------------
(* Supervision::fixPrototypeChain *)

\* The collections that col reaches by following distributeShardsLike, for
\* an assignment like of prototypes
RECURSIVE Reaches(_, _, _)
Reaches(like, col, n) ==
  IF n = 0 \/ col \notin DOMAIN like \/ like[col] = "" THEN {}
  ELSE {like[col]} \cup Reaches(like, like[col], n - 1)

\* The assignments without a cycle: no collection reaches itself
Acyclic(like) ==
  \A col \in DOMAIN like : col \notin Reaches(like, col, Cardinality(DOMAIN like))

\* Four collections of one shard each on the only DB server, with any
\* prototypes that form no cycle
PlanChain(like) ==
  [col \in DOMAIN like |->
     [replicationFactor |-> 1, distributeShardsLike |-> like[col],
      shards |-> (IF col = "c1" THEN "s1" ELSE IF col = "c2" THEN "s2"
                  ELSE "s3") :> <<"A">>]]

InitChain ==
  /\ \E like \in [Range(CollectionOrder) -> Range(CollectionOrder) \cup {""}] :
       /\ Acyclic(like)
       /\ agency = [AgencyOf({"A"}, {}, PlanChain(like),
                             CurrentOf(PlanChain(like))) EXCEPT
                      !.Health = [srv \in AllServers |->
                                    IF srv = "A" THEN GoodHealth
                                    ELSE UnsetHealth]]
  /\ transient = [i \in {1} |-> TransientOf]
  /\ sup = [i \in {1} |-> SupervisionOf(TRUE)]
  /\ now = 0
  /\ alive = [srv \in AllServers |-> TRUE]
  /\ hlog = NoTick
  /\ coll = NoCollection

\* A coordinator drops a collection: it leaves /Plan and /Current
DropCollection(col) ==
  /\ col \in DOMAIN agency.Plan
  /\ Cardinality(DOMAIN agency.Plan) > 1
  /\ agency' = [agency EXCEPT
                  !.Plan = [c \in DOMAIN @ \ {col} |-> @[c]],
                  !.Current = [c \in DOMAIN @ \ {col} |-> @[c]],
                  !.PlanVersion = @ + 1]
  /\ UNCHANGED <<transient, sup, now, alive, hlog, coll>>

\* The rest of the iteration, as Work, with the Plan of the snapshot it
\* worked on kept for the record
WorkSeen(i) ==
  /\ sup[i].running /\ sup[i].snapshot # <<>>
  /\ TickResult(i, sup[i], agency, sup[i].snapshot[1].S, sup[i].snapshot[1].T)
  /\ coll' = [seen |-> sup[i].snapshot[1].S.Plan]
  /\ UNCHANGED <<now, alive>>

NextChain ==
  \/ \E i \in DOMAIN sup : UpdateSnapshot(i)
  \/ \E i \in DOMAIN sup : WorkSeen(i)
  \/ \E col \in Range(CollectionOrder) : DropCollection(col)

SpecChain == InitChain /\ [][NextChain]_vars

\* The prototype of a collection in a plan, "" when it has none
LikeOf(plan, col) == plan[col].distributeShardsLike

\* A root: a collection without prototype, or one the plan does not know
IsRoot(plan, col) == col \notin DOMAIN plan \/ LikeOf(plan, col) = ""

\* The collections of the snapshot whose prototype is not a root
Chained(S) ==
  {col \in DOMAIN S.Plan :
     LikeOf(S.Plan, col) # "" /\ ~IsRoot(S.Plan, LikeOf(S.Plan, col))}

\* The tick has met the Plan of its snapshot: every prototype is a root
ChainsResolved(S) ==
  agency.Plan = S.Plan =>
    \A col \in DOMAIN agency'.Plan :
      LikeOf(agency'.Plan, col) # "" =>
        IsRoot(agency'.Plan, LikeOf(agency'.Plan, col))

\* A prototype is rewritten only where the observed one was still there, and
\* to the root of the observed chain
RewritesConditional(S) ==
  \A col \in DOMAIN agency.Plan \cap DOMAIN agency'.Plan :
    LikeOf(agency'.Plan, col) # LikeOf(agency.Plan, col) =>
      /\ col \in Chained(S)
      /\ LikeOf(agency.Plan, col) = LikeOf(S.Plan, col)
      /\ LikeOf(agency'.Plan, col) = resolve(S, LikeOf(S.Plan, col))

\* Every chained collection that is still as observed is rewritten, whatever
\* happened to the others
LoopGoesOn(S) ==
  \A col \in Chained(S) \cap DOMAIN agency.Plan :
    LikeOf(agency.Plan, col) = LikeOf(S.Plan, col) =>
      LikeOf(agency'.Plan, col) = resolve(S, LikeOf(S.Plan, col))

\* C35: the tick of a leading supervisor that meets the Plan of its snapshot
\* leaves every collection with a distributeShardsLike pointing at a
\* collection without one, whatever the length of the chains; a value is
\* rewritten only where the observed one was still in place, collections
\* that pointed at a root keep their value, and a collection whose
\* precondition fails does not keep the others from being rewritten
C35_FixPrototypeChain ==
  [][\A i \in DOMAIN sup :
       (sup[i].snapshot # <<>> /\ sup'[i].snapshot = <<>> /\ sup[i].leading) =>
         LET S == sup[i].snapshot[1].S
         IN /\ ChainsResolved(S)
            /\ RewritesConditional(S)
            /\ LoopGoesOn(S)]_vars

\* A tick has cut a chain of three links, c1 -> c2 -> c3 -> c4: c1 and c2
\* point at c4 now
C35_Witness ==
  /\ coll # NoCollection
  /\ DOMAIN coll.seen = Range(CollectionOrder)
  /\ LikeOf(coll.seen, "c1") = "c2" /\ LikeOf(coll.seen, "c2") = "c3"
  /\ LikeOf(coll.seen, "c3") = "c4" /\ LikeOf(coll.seen, "c4") = ""
  /\ DOMAIN agency.Plan = Range(CollectionOrder)
  /\ LikeOf(agency.Plan, "c1") = "c4" /\ LikeOf(agency.Plan, "c2") = "c4"
  /\ LikeOf(agency.Plan, "c3") = "c4"
-----------------------------------------------------------------------------
(* The calls of resolve inside fixPrototypeChain, one at a time *)

MaxDepth == 4          \* calls of resolve the stack is sure to hold

\* Any prototypes for the four collections, cycles included.  The walk of
\* fixPrototypeChain over the snapshot is in coll: k counts the collections
\* of the loop, at is the argument of the running call of resolve, depth
\* the number of calls on the stack, u the last value resolve returned
InitCycle ==
  /\ \E like \in [Range(CollectionOrder) -> Range(CollectionOrder) \cup {""}] :
       agency = [AgencyOf({"A"}, {}, PlanChain(like),
                          CurrentOf(PlanChain(like))) EXCEPT
                   !.Health = [srv \in AllServers |->
                                 IF srv = "A" THEN GoodHealth
                                 ELSE UnsetHealth]]
  /\ transient = [i \in {1} |-> TransientOf]
  /\ sup = [i \in {1} |-> SupervisionOf(TRUE)]
  /\ now = 0
  /\ alive = [srv \in AllServers |-> TRUE]
  /\ hlog = NoTick
  /\ coll = [pc |-> "loop", k |-> 1, at |-> "", depth |-> 0, u |-> ""]

\* One turn of "for (auto const& collection : database.second->children())":
\* a collection with a prototype calls resolve(db, prototype); after the
\* last collection the transaction is sent and the function returns
NextCollection ==
  /\ coll.pc = "loop"
  /\ LET collections == OrderedCollections(agency.Plan)
     IN IF coll.k > Len(collections)
        THEN coll' = [coll EXCEPT !.pc = "returned"]
        ELSE LET prototype == LikeOf(agency.Plan, collections[coll.k])
             IN IF prototype = ""
                THEN coll' = [coll EXCEPT !.k = @ + 1, !.u = ""]
                ELSE coll' = [coll EXCEPT !.pc = "resolve",
                                          !.at = prototype, !.depth = 1]
  /\ UNCHANGED <<agency, transient, sup, now, alive, hlog>>

\* The body of the lambda resolve for the argument at: it returns col when
\* the collection has no distributeShardsLike
ResolveReturns ==
  /\ coll.pc = "resolve"
  /\ resolveOneLink(agency, coll.at) = coll.at
  /\ coll' = [coll EXCEPT !.pc = "loop", !.k = @ + 1, !.u = coll.at,
                          !.at = "", !.depth = 0]
  /\ UNCHANGED <<agency, transient, sup, now, alive, hlog>>

\* and calls resolve(db, s) otherwise.  A call beyond what the stack is sure
\* to hold either finds room or ends the process
ResolveCalls(room) ==
  /\ coll.pc = "resolve"
  /\ resolveOneLink(agency, coll.at) # coll.at
  /\ IF coll.depth < MaxDepth
     THEN coll' = [coll EXCEPT !.at = resolveOneLink(agency, coll.at),
                               !.depth = @ + 1]
     ELSE IF room
     THEN coll' = [coll EXCEPT !.at = resolveOneLink(agency, coll.at)]
     ELSE coll' = [coll EXCEPT !.pc = "crashed"]
  /\ UNCHANGED <<agency, transient, sup, now, alive, hlog>>

NextCycle ==
  \/ NextCollection
  \/ ResolveReturns
  \/ \E room \in BOOLEAN : ResolveCalls(room)

SpecCycle == InitCycle /\ [][NextCycle]_vars /\ WF_vars(NextCycle)

\* The prototypes of the Plan as an assignment
LikesOf(plan) == [col \in DOMAIN plan |-> LikeOf(plan, col)]

\* For a Plan without cycle the calls return what the operator resolve gives
ResolveAgrees ==
  (/\ Acyclic(LikesOf(agency.Plan))
   /\ coll.pc = "loop" /\ coll.u # "")
  => coll.u = resolve(agency,
                      LikeOf(agency.Plan,
                             OrderedCollections(agency.Plan)[coll.k - 1]))

\* For a Plan without cycle fixPrototypeChain returns
ReturnsWithoutCycle ==
  Acyclic(LikesOf(agency.Plan)) => <>(coll.pc = "returned")

\* C36: fixPrototypeChain returns for every Plan, also when the
\* distributeShardsLike references form a cycle
C36_FixPrototypeChainReturns == <>(coll.pc = "returned")
-----------------------------------------------------------------------------
(* Opening a collection whose compaction was under way when the process
   ended *)

\* The document markers among the first cut markers that are the last of
\* their key among the first t markers: what the compactor thread, at work
\* after t markers were written, copies from the first datafile
AliveAt(markers, cut, t) ==
  SelectSeq(SubSeq(markers, 1, cut),
            LAMBDA m :
              /\ m.type = TRI_DF_MARKER_VPACK_DOCUMENT
              /\ \A k \in 1..t :
                   markers[k].doc.key = m.doc.key
                     => markers[k].doc.rev <= m.doc.rev)

\* Two sealed datafiles and a journal with the markers in the order they
\* were written, and, when t is not 0, a compactor with the fid of the first
\* datafile
FilesWithCompactor(markers, cut1, cut2, t) ==
  LET written == Stamped(markers, 0)
      sealedFile(id, from, to) ==
        [DatafileOf(id, id, FALSE) EXCEPT
           !.sealed = TRUE, !.markers = SubSeq(written, from, to)]
  IN [CollectionOf(ROLE_DBSERVER) EXCEPT
        !.datafiles = <<sealedFile(1, 1, cut1), sealedFile(2, cut1 + 1, cut2)>>,
        !.journals = <<[DatafileOf(3, 3, FALSE) EXCEPT
                          !.markers = SubSeq(written, cut2 + 1, Len(written))]>>,
        !.compactors = IF t = 0 THEN <<>>
                       ELSE <<[DatafileOf(4, 1, TRUE) EXCEPT
                                 !.markers = AliveAt(written, cut1, t)]>>,
        !.tick = 4, !.hlc = Len(markers)]

InitReplay ==
  /\ NoSupervision
  /\ \E markers \in MarkerSequences :
       \E cut1 \in 0..Len(markers) : \E cut2 \in cut1..Len(markers) :
         \E t \in {0} \cup (cut1..Len(markers)) :
           /\ t # 0 => cut1 > 0
           /\ coll = FilesWithCompactor(markers, cut1, cut2, t)

SpecReplay == InitReplay /\ [][NextLoad]_vars

\* Every marker of the files of the collection
AllMarkers(c) ==
  {iterateDatafiles(c)[k].marker : k \in DOMAIN iterateDatafiles(c)}

\* The revision the primary index has to give for the key: that of the
\* marker written last for it when it is a document marker, else none
WrittenLast(c, key) ==
  LET ofKey == {m \in AllMarkers(c) : m.doc.key = key}
      last == CHOOSE m \in ofKey : \A o \in ofKey : o.doc.rev <= m.doc.rev
  IN IF ofKey = {} THEN 0
     ELSE IF last.type = TRI_DF_MARKER_VPACK_DOCUMENT THEN last.doc.rev ELSE 0

\* The markers are replayed in ascending order of the fids of their files
AscendingFids(c) ==
  \A k \in 1..(Len(iterateDatafiles(c)) - 1) :
    iterateDatafiles(c)[k].fid <= iterateDatafiles(c)[k + 1].fid

Opened(c) == c.last.op = "open" /\ c.last.failed = 0

\* Without a compactor the replay is in the order of the fids and the marker
\* written last decides
ReplayWithoutCompactor ==
  (Opened(coll) /\ coll.compactors = <<>>)
    => /\ AscendingFids(coll)
       /\ \A key \in Keys : coll.primary[key] = WrittenLast(coll, key)

\* With a compactor, too, when its datafile is the last of the vector
ReplayOfLastDatafile ==
  (/\ Opened(coll)
   /\ coll.compactors # <<>>
   /\ coll.datafiles[2].markers = <<>>)
    => \A key \in Keys : coll.primary[key] = WrittenLast(coll, key)

\* C37: the replay on open takes the markers of datafiles, journals and
\* compactors in ascending order of the fid, and for every key the marker
\* written last decides the entry of the primary index, also when a
\* compactor with the fid of an older datafile is there
C37_ReplayInFidOrder ==
  Opened(coll)
    => /\ AscendingFids(coll)
       /\ \A key \in Keys : coll.primary[key] = WrittenLast(coll, key)

\* The part of it on the primary index alone
RecoversWrittenLast ==
  Opened(coll) => \A key \in Keys : coll.primary[key] = WrittenLast(coll, key)
-----------------------------------------------------------------------------
(* reserveJournalSpace when the journal is full or the reservation fails *)

\* The call sealed the journal in place, moved it to the end of _datafiles
\* and returned a new journal
SealedMovedAndServed ==
  /\ coll'.last.res = TRI_ERROR_NO_ERROR
  /\ coll'.datafiles = Append(coll.datafiles,
                              [coll.journals[1] EXCEPT !.sealed = TRUE])
  /\ Len(coll'.journals) = 1
  /\ coll'.journals[1].id # coll.journals[1].id
  /\ coll'.last.datafile = coll'.journals[1].id

\* A call that finds a journal in place, the journal full, and nothing but
\* perhaps the rename going wrong
FullJournal(env) ==
  /\ coll.journals # <<>>
  /\ env.reserve = "full" /\ env.seal /\ env.create /\ env.again

\* A full journal whose file is renamed is sealed, moved and replaced
FullJournalRenamed ==
  [][\A env \in ReserveEnvs :
       (ReserveJournalSpace(env) /\ FullJournal(env) /\ env.rename)
         => SealedMovedAndServed]_vars

\* A full journal whose file cannot be renamed is sealed and moved, the call
\* returns the error of the rename and no journal is opened
RenameFailureFails ==
  [][\A env \in ReserveEnvs :
       (ReserveJournalSpace(env) /\ FullJournal(env) /\ ~env.rename)
         => /\ coll'.last.res = TRI_ERROR_SYS_ERROR
            /\ coll'.datafiles = Append(coll.datafiles,
                                        [coll.journals[1] EXCEPT
                                           !.sealed = TRUE])
            /\ coll'.journals = <<>>]_vars

\* A reservation error other than datafile-full makes the call fail and
\* leaves the files as they are
OtherErrorFails ==
  [][\A env \in ReserveEnvs :
       (ReserveJournalSpace(env) /\ coll.journals # <<>>
          /\ env.reserve = "error")
         => /\ coll'.last.res # TRI_ERROR_NO_ERROR
            /\ coll'.journals = coll.journals
            /\ coll'.datafiles = coll.datafiles]_vars

\* C38: when reserveElement reports datafile-full, reserveJournalSpace seals
\* the journal, moves it to the end of the datafiles and opens a new journal
\* that serves the request, also when the sealed file cannot be renamed; any
\* other reservation error makes the call fail
C38_FullJournalIsReplaced ==
  [][\A env \in ReserveEnvs :
       /\ (ReserveJournalSpace(env) /\ FullJournal(env))
            => SealedMovedAndServed
       /\ (ReserveJournalSpace(env) /\ coll.journals # <<>>
             /\ env.reserve = "error")
            => coll'.last.res # TRI_ERROR_NO_ERROR]_vars
-----------------------------------------------------------------------------
(* The files of the _datafiles vector *)

\* The compactor thread puts a compactor in the place of the datafile it
\* has merged once it has closed it
ReplaceWithSealedCompactor ==
  /\ coll.compactors # <<>>
  /\ coll.compactors[1].sealed
  /\ ReplaceDatafileWithCompactor(coll.compactors[1].fid)

NextSealed ==
  \/ \E env \in ReserveEnvs : ReserveJournalSpace(env)
  \/ \E sealed, renamed \in BOOLEAN : RotateActiveJournal(sealed, renamed)
  \/ \E i \in 1..MaxFiles : \E created \in BOOLEAN : CreateCompactor(i, created)
  \/ \E id \in Fids : \E sealed \in BOOLEAN : CloseCompactor(id, sealed)
  \/ ReplaceWithSealedCompactor
  \/ \E id \in Fids : RemoveDatafile(id)

SpecSealed == InitFiles /\ [][NextSealed]_vars

\* Every file of _datafiles is sealed
DatafilesSealed ==
  \A i \in DOMAIN coll.datafiles : coll.datafiles[i].sealed

\* _datafiles is in ascending order of fids that are all different
DatafilesAscending ==
  \A i, j \in DOMAIN coll.datafiles :
    i < j => coll.datafiles[i].fid < coll.datafiles[j].fid

\* C39: in every state every file of the datafiles vector is sealed and the
\* vector is in ascending order of unique fids, whatever calls of
\* reserveJournalSpace, rotateActiveJournal, replaceDatafileWithCompactor
\* and removeDatafile ran before, sealDatafile failing or not
C39_DatafilesSealedAndAscending == DatafilesSealed /\ DatafilesAscending

\* The files of _datafiles that are not sealed
Unsealed(c) == {c.datafiles[i].id : i \in DOMAIN c.datafiles} \
                 {c.datafiles[i].id :
                    i \in {k \in DOMAIN c.datafiles : c.datafiles[k].sealed}}

\* A file that is not sealed gets into _datafiles only by a call of
\* reserveJournalSpace that returns an error
UnsealedByFailedReserve ==
  [][Unsealed(coll') \ Unsealed(coll) # {}
       => /\ coll'.last.op = "reserveJournalSpace"
          /\ coll'.last.res # TRI_ERROR_NO_ERROR]_vars
-----------------------------------------------------------------------------
(* The size of a new journal *)

Width == 9             \* bits of TRI_voc_size_t in the model
Slack == 256           \* "targetSize - 256"

SizeLimit == 2 ^ Width
Sizes == 0..(SizeLimit - 1)

\* Unsigned arithmetic of TRI_voc_size_t
Minus(a, b) == (a - b + SizeLimit) % SizeLimit
Twice(a) == (2 * a) % SizeLimit

\* LogicalCollection::updateProperties stores the journalSize it is given,
\* and reserveJournalSpace is called with the size of a marker; coll holds
\* the locals of reserveJournalSpace before the loop "make sure that the
\* document fits"
InitSize ==
  /\ NoSupervision
  /\ \E journalSize, size \in Sizes :
       coll = [pc |-> "fits", journalSize |-> journalSize, size |-> size,
               targetSize |-> journalSize]

\* "while (targetSize - 256 < size)": the body
DoubleTargetSize ==
  /\ coll.pc = "fits"
  /\ Minus(coll.targetSize, Slack) < coll.size
  /\ coll' = [coll EXCEPT !.targetSize = Twice(@)]
  /\ Idle

\* and the exit to the loop that selects the journal
TargetSizeChosen ==
  /\ coll.pc = "fits"
  /\ ~(Minus(coll.targetSize, Slack) < coll.size)
  /\ coll' = [coll EXCEPT !.pc = "select"]
  /\ Idle

NextSize == DoubleTargetSize \/ TargetSizeChosen

SpecSize == InitSize /\ [][NextSize]_vars /\ WF_vars(NextSize)

\* The marker fits into a journal of the size chosen
Fits == coll.targetSize >= coll.size + Slack

\* For a journalSize of at least 256 and a marker of at most half the range
\* less 256 the loop ends with a size the marker fits into
FitsInHalfTheRange ==
  (coll.journalSize >= Slack /\ coll.size + Slack <= SizeLimit \div 2)
    => /\ <>(coll.pc = "select")
       /\ [](coll.pc = "select" => Fits)

\* C40: for every journalSize and every size of the request the loop that
\* doubles targetSize while targetSize - 256 < size ends, and it ends with
\* a targetSize of at least size + 256
C40_DoublingEndsAndFits ==
  /\ <>(coll.pc = "select")
  /\ [](coll.pc = "select" => Fits)

\* The two parts of it
DoublingEnds == <>(coll.pc = "select")
ChosenSizeFits == coll.pc = "select" => Fits

====
